---- MODULE Spec2Model ----
(***************************************************************************)
(* A model of the dump parser and the snapshot store of lammps-util-rust:  *)
(* DumpFile::read (src/src/dump_file.rs), DumpSnapshot::new/read and the   *)
(* copy_snapshot family (src/src/dump_snapshot.rs), Clusterizer::new       *)
(* (src/src/clusterizer.rs).                                               *)
(*                                                                         *)
(* A text line is a sequence of one-character strings, so that the code's  *)
(* byte-level operations (split_at_checked, split_whitespace, parse) are   *)
(* computed, not assumed.  All text is ASCII.  Unsigned integers are read  *)
(* from at most nine digits (TLC's integers are 32 bits wide).  A floating *)
(* point literal is sign, digits and at most one '.'; an f64 is kept as    *)
(* the decimal [neg, mant, exp] = (-1)^neg * mant / 10^exp it was read     *)
(* from and is computed with as the 53-bit value that decimal parses to;   *)
(* an f32 (the box bounds, the coordinates of XYZ in xyz.rs) is rounded to *)
(* 24 bits.  The other literals Rust reads as floats (exponents, inf, nan) *)
(* do not occur in the inputs.                                             *)
(***************************************************************************)
EXTENDS Integers, Sequences, FiniteSets, TLC

VARIABLES
    file,             \* the lines of the dump file at `path`
    timesteps,        \* the `timesteps` argument of DumpFile::read
    pos,              \* number of lines the `lines` iterator has yielded
    pc,               \* where DumpFile::read is: timestep, count, decide, keys, rows, done
    timestep,         \* the local `timestep` of the current block
    number_of_atoms,  \* the local `number_of_atoms` of the current block
    sym_box,          \* the local `sym_box` of DumpSnapshot::read
    snapshot,         \* the local `snapshot` of DumpSnapshot::read
    row,              \* the loop index `i` of DumpSnapshot::read
    dump,             \* dump.snapshots: HashMap<u64, DumpSnapshot>
    result,           \* what DumpFile::read returned: Running, Ok, an error kind, Panic
    input,            \* the store a transform is called on (Some, or None)
    op,               \* the transform called last and its arguments
    outcome,          \* None before a call, then Ok or Panic
    output            \* the store the call produced (Some, or None)

readVars == <<file, timesteps, pos, pc, timestep, number_of_atoms, sym_box,
              snapshot, row, dump, result>>

storeVars == <<input, op, outcome, output>>

vars == <<readVars, storeVars>>

----------------------------------------------------------------------------
(* Bounds of the inputs.                                                   *)

MaxBlocks == 2
MaxAtoms == 1
MaxRows == 2
MaxIndices == 2
MaxKeys == 2

----------------------------------------------------------------------------
(* Text.                                                                   *)

Min(a, b) == IF a < b THEN a ELSE b

Max(a, b) == IF a > b THEN a ELSE b

DigitChars == <<"0", "1", "2", "3", "4", "5", "6", "7", "8", "9">>

IsDigit(c) == \E d \in 1..10 : DigitChars[d] = c

DigitVal(c) == (CHOOSE d \in 1..10 : DigitChars[d] = c) - 1

\* char::is_whitespace on ASCII: space, and U+0009 to U+000D (tab, line
\* feed, vertical tab, form feed, carriage return).
IsWhitespace(c) == c \in {" ", "\t", "\n", "", "\f", "\r"}

HEADER_TIMESTEP ==
    <<"I","T","E","M",":"," ","T","I","M","E","S","T","E","P">>

HEADER_NUM_OF_ATOMS ==
    <<"I","T","E","M",":"," ","N","U","M","B","E","R"," ","O","F"," ",
      "A","T","O","M","S">>

HEADER_SYM_BOX ==
    <<"I","T","E","M",":"," ","B","O","X"," ","B","O","U","N","D","S">>

HEADER_ATOMS == <<"I","T","E","M",":"," ","A","T","O","M","S">>

\* Option and Result values: <<>> is None / Err, <<v>> is Some(v) / Ok(v).
None == <<>>

Some(v) == <<v>>

\* The value of a string of digits, most significant first.
RECURSIVE DigitsValue(_)
DigitsValue(s) ==
    IF s = <<>> THEN 0
    ELSE 10 * DigitsValue(SubSeq(s, 1, Len(s) - 1)) + DigitVal(s[Len(s)])

AllDigits(s) == \A k \in 1..Len(s) : IsDigit(s[k])

\* str::parse::<u64> and str::parse::<usize>: an optional '+', then one or
\* more digits and nothing else.
ParseUnsigned(s) ==
    LET body == IF Len(s) > 0 /\ s[1] = "+" THEN Tail(s) ELSE s
    IN  IF Len(body) > 0 /\ AllDigits(body) THEN Some(DigitsValue(body)) ELSE None

\* The number of trailing "0" characters of a digit string.
RECURSIVE TrailingZeros(_)
TrailingZeros(s) ==
    IF s # <<>> /\ s[Len(s)] = "0"
    THEN 1 + TrailingZeros(SubSeq(s, 1, Len(s) - 1))
    ELSE 0

\* str::parse::<f64> on decimal literals: an optional sign, digits with at
\* most one '.', at least one digit.  An f64 holds a literal of up to 15
\* digits so that "{}" prints the same decimal again.
ParseFloat(s) ==
    LET neg  == Len(s) > 0 /\ s[1] = "-"
        body == IF Len(s) > 0 /\ s[1] \in {"+", "-"} THEN Tail(s) ELSE s
        dots == {k \in 1..Len(body) : body[k] = "."}
        dot  == IF dots = {} THEN Len(body) + 1 ELSE CHOOSE k \in dots : TRUE
        int  == SubSeq(body, 1, dot - 1)
        frac == SubSeq(body, dot + 1, Len(body))
        kept == SubSeq(frac, 1, Len(frac) - TrailingZeros(frac))
    IN  IF /\ Cardinality(dots) <= 1
           /\ Len(int) + Len(frac) > 0
           /\ AllDigits(int)
           /\ AllDigits(frac)
        THEN Some([neg |-> neg, mant |-> DigitsValue(int \o kept), exp |-> Len(kept)])
        ELSE None

\* 0.0
Zero == [neg |-> FALSE, mant |-> 0, exp |-> 0]

----------------------------------------------------------------------------
(* f32.  A finite f32 is [m, e], the value m * 2^e with m odd or 0 and     *)
(* |m| < 2^24.  All sums and products are kept below 2^31; subnormals,     *)
(* infinities and NaN do not occur on the inputs.                          *)

F32Bits == 24

RECURSIVE Pow2(_)
Pow2(n) == IF n <= 0 THEN 1 ELSE 2 * Pow2(n - 1)

RECURSIVE Pow10(_)
Pow10(n) == IF n <= 0 THEN 1 ELSE 10 * Pow10(n - 1)

Abs(v) == IF v < 0 THEN -v ELSE v

SetMax(S) == CHOOSE m \in S : \A o \in S : o <= m

\* The number of bits of n >= 0.
RECURSIVE BitLen(_)
BitLen(n) == IF n = 0 THEN 0 ELSE 1 + BitLen(n \div 2)

\* The f32 of value m * 2^e, m of at most 24 bits.
RECURSIVE Dyadic(_, _)
Dyadic(m, e) ==
    IF m = 0 THEN [m |-> 0, e |-> 0]
    ELSE IF m % 2 = 0 THEN Dyadic(m \div 2, e + 1)
    ELSE [m |-> m, e |-> e]

F32Neg(v) == [m |-> -v.m, e |-> v.e]

\* M >= 0 cut to its upper 24 bits: the bits kept [q], the k bits cut
\* off [rem].
CutBits(M) ==
    CHOOSE c \in {[q |-> M \div Pow2(k), rem |-> M % Pow2(k), k |-> k] :
                    k \in {IF BitLen(M) > F32Bits THEN BitLen(M) - F32Bits ELSE 0}} :
      TRUE

\* The bits cut off are above half a unit of q, or half a unit with q odd.
RoundsUp(c, sticky) ==
    /\ c.k > 0
    /\ \/ c.rem > Pow2(c.k - 1)
       \/ c.rem = Pow2(c.k - 1) /\ (sticky \/ c.q % 2 = 1)

\* Round to nearest, ties to even, of M + s to 24 bits, where 0 < s < 1
\* when sticky (M then has more than 25 bits) and s = 0 otherwise: the
\* rounded [m] * 2^[e], and dir = 1 when it is above M + s, -1 when below,
\* 0 when equal.
RoundBits(M, sticky) ==
    CHOOSE r \in {[m   |-> IF RoundsUp(c, sticky) THEN c.q + 1 ELSE c.q,
                   e   |-> c.k,
                   dir |-> IF RoundsUp(c, sticky) THEN 1
                           ELSE IF c.rem = 0 /\ ~sticky THEN 0 ELSE -1] :
                    c \in {CutBits(M)}} : TRUE

\* The f32 nearest to sign * M * 2^E, |M| rounded as in RoundBits.
Rounded(sign, M, sticky, E) ==
    CHOOSE f \in {Dyadic((IF M < 0 THEN -sign ELSE sign) * r.m, E + r.e) :
                    r \in {RoundBits(Abs(M), sticky)}} : TRUE

GuardLimit == Pow2(F32Bits + 1)

\* Binary long division: q and r with n / d = (q + r / d) * 2^e, until the
\* remainder is 0 or q has more than 25 bits.
RECURSIVE DivBits(_, _, _, _)
DivBits(q, r, d, e) ==
    IF r = 0 \/ q >= GuardLimit THEN [q |-> q, r |-> r, e |-> e]
    ELSE IF r >= d - r THEN DivBits(2 * q + 1, r - (d - r), d, e - 1)
    ELSE DivBits(2 * q, 2 * r, d, e - 1)

\* The f32 nearest to (b.q + b.r / d) * 2^b.e, and dir = 1 when the f32 is
\* above it, -1 when below, 0 when equal.
RoundedFraction(b) ==
    CHOOSE x \in {[f |-> Dyadic(r.m, b.e + r.e), dir |-> r.dir] :
                    r \in {RoundBits(b.q, b.r # 0)}} : TRUE

\* The f32 nearest to n / d (n >= 0, d > 0), with its dir.
FractionBits(n, d) ==
    CHOOSE x \in {RoundedFraction(b) : b \in {DivBits(n \div d, n % d, d, 0)}} :
      TRUE

\* str::parse::<f32> of a decimal, and `x as f32` of an f64 that holds it.
AsF32(v) ==
    CHOOSE f \in {IF v.neg THEN F32Neg(x.f) ELSE x.f :
                    x \in {FractionBits(v.mant, Pow10(v.exp))}} : TRUE

\* |big| >= |small| / 2 > 0: big in units of 2^E with 29 bits [B], small
\* cut to the same units [S].
Aligned(big, small) ==
    CHOOSE a \in {[E      |-> big.e - s,
                   B      |-> Abs(big.m) * Pow2(s),
                   S      |-> IF big.e - s - small.e <= 0
                              THEN Abs(small.m) * Pow2(small.e - (big.e - s))
                              ELSE IF big.e - s - small.e > 30 THEN 0
                              ELSE Abs(small.m) \div Pow2(big.e - s - small.e),
                   sticky |-> big.e - s - small.e > 0] :
                    s \in {29 - BitLen(Abs(big.m))}} : TRUE

\* |big| + |small| or |big| - |small| in the units of a, rounded down when
\* bits of small were cut.
AlignedSum(big, small, a) ==
    IF (big.m > 0) = (small.m > 0) THEN a.B + a.S
    ELSE IF a.sticky THEN a.B - a.S - 1
    ELSE a.B - a.S

F32AddOrdered(big, small) ==
    CHOOSE f \in {Rounded(IF big.m < 0 THEN -1 ELSE 1,
                          AlignedSum(big, small, a), a.sticky, a.E) :
                    a \in {Aligned(big, small)}} : TRUE

\* The position of the leading bit of a.
TopBit(a) == a.e + BitLen(Abs(a.m))

F32AddValues(a, b) ==
    IF a.m = 0 THEN b
    ELSE IF b.m = 0 THEN a
    ELSE CHOOSE f \in {F32AddOrdered(p[1], p[2]) :
                         p \in {IF TopBit(a) >= TopBit(b) THEN <<a, b>>
                                ELSE <<b, a>>}} : TRUE

\* a + b, the operands evaluated once
F32Add(a, b) == CHOOSE r \in {F32AddValues(x, y) : x \in {a}, y \in {b}} : TRUE

\* a - b
F32Sub(a, b) == F32Add(a, F32Neg(b))

HalfWord == Pow2(F32Bits \div 2)

Word == Pow2(F32Bits)

\* The 48-bit product of the mantissas, H * 2^24 + L, built from 12-bit
\* halves.
Product48(a, b) ==
    LET ah   == Abs(a.m) \div HalfWord
        al   == Abs(a.m) % HalfWord
        bh   == Abs(b.m) \div HalfWord
        bl   == Abs(b.m) % HalfWord
    IN  CHOOSE p \in {[H |-> ah * bh + mid \div HalfWord
                               + (al * bl + (mid % HalfWord) * HalfWord) \div Word,
                       L |-> (al * bl + (mid % HalfWord) * HalfWord) % Word] :
                        mid \in {ah * bl + al * bh}} : TRUE

\* The upper 30 bits of H * 2^24 + L: H shifted left by s.
TopBits(p, s) ==
    [M      |-> p.H * Pow2(s) + p.L \div Pow2(F32Bits - s),
     sticky |-> p.L % Pow2(F32Bits - s) # 0,
     s      |-> s]

F32MulValues(a, b) ==
    CHOOSE f \in {Rounded(IF (a.m < 0) = (b.m < 0) THEN 1 ELSE -1,
                          t.M, t.sticky, a.e + b.e + F32Bits - t.s) :
                    t \in {TopBits(p, Min(F32Bits, 30 - BitLen(p.H))) :
                             p \in {Product48(a, b)}}} : TRUE

\* a * b, the operands evaluated once
F32Mul(a, b) == CHOOSE r \in {F32MulValues(x, y) : x \in {a}, y \in {b}} : TRUE

\* a <= b
F32Leq(a, b) == \E d \in {F32Sub(b, a)} : d.m >= 0

\* The decimal mant / 10^exp without trailing fraction zeros.
RECURSIVE CanonDec(_, _, _)
CanonDec(neg, mant, exp) ==
    IF exp > 0 /\ mant % 10 = 0 THEN CanonDec(neg, mant \div 10, exp - 1)
    ELSE [neg |-> neg, mant |-> mant, exp |-> exp]

\* The number of decimal digits of n.
RECURSIVE DecLen(_)
DecLen(n) == IF n < 10 THEN 1 ELSE 1 + DecLen(n \div 10)

\* Whether the decimal a * u / d reads as the f32 f.
ReadsAs(a, u, d, f) == FractionBits(a * u, d).f = f

RECURSIVE LowestReading(_, _, _, _)
LowestReading(a, u, d, f) ==
    IF a > 0 /\ ReadsAs(a - 1, u, d, f) THEN LowestReading(a - 1, u, d, f) ELSE a

RECURSIVE HighestReading(_, _, _, _)
HighestReading(a, u, d, f) ==
    IF ReadsAs(a + 1, u, d, f) THEN HighestReading(a + 1, u, d, f) ELSE a

\* Of the decimals a * u / d with a in lo..hi, which all read as the same
\* f32, the one nearest to that f32; of two equally near, the even one.
NearestReading(lo, hi, u, d) ==
    LET below == {a \in lo..hi : FractionBits(a * u, d).dir >= 0}
        a     == SetMax(below)
        mid   == FractionBits((2 * a + 1) * u, 2 * d).dir
    IN  IF below = {} THEN lo
        ELSE IF a = hi \/ FractionBits(a * u, d).dir = 0 THEN a
        ELSE IF mid > 0 THEN a + 1
        ELSE IF mid < 0 THEN a
        ELSE IF a % 2 = 0 THEN a ELSE a + 1

\* The decimals of v cut to all but t digits that read as f, from the
\* fewest digits on.
RECURSIVE ShortestFrom(_, _, _)
ShortestFrom(v, f, t) ==
    LET u   == Pow10(t)
        d   == Pow10(v.exp)
        lo  == v.mant \div u
        hit == IF lo * u = v.mant \/ ReadsAs(lo, u, d, f) THEN <<lo>>
               ELSE IF ReadsAs(lo + 1, u, d, f) THEN <<lo + 1>>
               ELSE <<>>
    IN  IF hit = <<>> THEN ShortestFrom(v, f, t - 1)
        ELSE CanonDec(v.neg,
                      NearestReading(LowestReading(hit[1], u, d, f),
                                     HighestReading(hit[1], u, d, f), u, d) * u,
                      v.exp)

\* The f32 nearest to the decimal v, as the decimal "{}" prints it as: the
\* one of fewest digits that reads back as the same f32 and, of these, the
\* nearest to it.
F32Shortest(v) ==
    IF v.mant = 0 THEN v
    ELSE ShortestFrom(v, FractionBits(v.mant, Pow10(v.exp)).f, DecLen(v.mant) - 1)

\* str::parse::<f32>
ParseF32(s) ==
    CHOOSE r \in {IF p = None THEN None ELSE Some(F32Shortest(p[1])) :
                    p \in {ParseFloat(s)}} : TRUE

----------------------------------------------------------------------------
(* f64.  The 53 bits of an f64 do not fit TLC's integers, so a natural     *)
(* number is a sequence of limbs in base 2^12, the least significant       *)
(* first and the last one not 0.  A finite f64 is [neg, m, e], the value   *)
(* (-1)^neg * m * 2^e with the natural number m odd or 0.  An f64 read     *)
(* from text is kept as its decimal (no two decimals of nine digits read   *)
(* as the same f64) and becomes [neg, m, e] where the code computes with   *)
(* it.  Subnormals, infinities and NaN do not occur on the inputs.         *)

F64Bits == 53

LimbBits == F32Bits \div 2

Limb == Pow2(LimbBits)

LimbAt(s, i) == IF i \in 1..Len(s) THEN s[i] ELSE 0

\* s without its upper limbs that are 0.
NatTrim(s) == SubSeq(s, 1, SetMax({0} \cup {i \in 1..Len(s) : s[i] # 0}))

\* One step of the carry through s: limb s.i of s.todo with the carry.
NatCarry(s) ==
    CHOOSE n \in {[todo  |-> s.todo, i |-> s.i + 1,
                   carry |-> t \div Limb,
                   out   |-> Append(s.out, t % Limb)] :
                    t \in {LimbAt(s.todo, s.i) + s.carry}} : TRUE

RECURSIVE NatCarryFrom(_)
NatCarryFrom(s) ==
    IF s.i > Len(s.todo) /\ s.carry = 0 THEN s.out
    ELSE CHOOSE r \in {NatCarryFrom(n) : n \in {NatCarry(s)}} : TRUE

\* The natural number with the limb values s, each an integer of at most
\* 30 bits, the sum not negative.
NatNorm(s) ==
    CHOOSE r \in {NatTrim(NatCarryFrom([todo |-> x, i |-> 1, carry |-> 0, out |-> <<>>])) :
                    x \in {s}} : TRUE

NatOf(n) == NatNorm(<<n>>)

\* The integer of a natural number below 2^31.
NatToInt(s) == LimbAt(s, 1) + Limb * LimbAt(s, 2) + Limb * Limb * LimbAt(s, 3)

NatBitLen(s) == IF s = <<>> THEN 0 ELSE LimbBits * (Len(s) - 1) + BitLen(s[Len(s)])

NatAdd(a, b) ==
    CHOOSE r \in {NatNorm([i \in 1..Max(Len(x), Len(y)) |-> LimbAt(x, i) + LimbAt(y, i)]) :
                    x \in {a}, y \in {b}} : TRUE

\* a - b for a >= b
NatSub(a, b) ==
    CHOOSE r \in {NatNorm([i \in 1..Max(Len(x), Len(y)) |-> LimbAt(x, i) - LimbAt(y, i)]) :
                    x \in {a}, y \in {b}} : TRUE

\* -1, 0 or 1 as a < b, a = b or a > b
NatCmpValues(a, b) ==
    IF Len(a) # Len(b) THEN (IF Len(a) < Len(b) THEN -1 ELSE 1)
    ELSE CHOOSE c \in {IF D = {} THEN 0
                       ELSE IF a[SetMax(D)] < b[SetMax(D)] THEN -1 ELSE 1 :
                         D \in {{i \in 1..Len(a) : a[i] # b[i]}}} : TRUE

NatCmp(a, b) == CHOOSE c \in {NatCmpValues(x, y) : x \in {a}, y \in {b}} : TRUE

\* a * 2^k
NatShl(a, k) ==
    CHOOSE r \in {NatNorm([i \in 1..(Len(x) + n \div LimbBits) |->
                              LimbAt(x, i - n \div LimbBits) * Pow2(n % LimbBits)]) :
                    x \in {a}, n \in {k}} : TRUE

\* a \div 2^k
NatShr(a, k) ==
    CHOOSE r \in {NatTrim([i \in 1..(Len(x) - Min(Len(x), n \div LimbBits)) |->
                              LimbAt(x, i + n \div LimbBits) \div Pow2(n % LimbBits)
                              + (LimbAt(x, i + n \div LimbBits + 1) % Pow2(n % LimbBits))
                                  * Pow2(LimbBits - (n % LimbBits))]) :
                    x \in {a}, n \in {k}} : TRUE

\* Bit i of a, bit 0 the lowest.
NatBit(a, i) == (LimbAt(a, i \div LimbBits + 1) \div Pow2(i % LimbBits)) % 2

\* The k lowest bits of a are 0.
NatLowZero(a, k) ==
    /\ \A i \in 1..(k \div LimbBits) : LimbAt(a, i) = 0
    /\ LimbAt(a, k \div LimbBits + 1) % Pow2(k % LimbBits) = 0

\* The number of 0 bits below the lowest 1 bit of a # 0.
NatTrailingZeros(a) ==
    CHOOSE t \in {LimbBits * (i - 1) + SetMax({b \in 0..LimbBits : a[i] % Pow2(b) = 0}) :
                    i \in {CHOOSE j \in 1..Len(a) :
                             a[j] # 0 /\ \A l \in 1..(j - 1) : a[l] = 0}} :
      TRUE

RECURSIVE SumTo(_, _)
SumTo(f, n) == IF n = 0 THEN 0 ELSE f[n] + SumTo(f, n - 1)

\* a * b, for a and b of at most 64 limbs
NatMul(a, b) ==
    CHOOSE r \in {NatNorm([k \in 1..(Len(x) + Len(y)) |->
                              SumTo([i \in 1..Len(x) |-> x[i] * LimbAt(y, k + 1 - i)],
                                    Len(x))]) :
                    x \in {a}, y \in {b}} : TRUE

F64Zero == [neg |-> FALSE, m |-> <<>>, e |-> 0]

F64Neg(v) == IF v.m = <<>> THEN v ELSE [neg |-> ~v.neg, m |-> v.m, e |-> v.e]

\* The f64 of value m * 2^e, m of at most 53 bits.
F64Odd(neg, m, e) ==
    CHOOSE f \in {IF x = <<>> THEN F64Zero
                  ELSE [neg |-> neg, m |-> NatShr(x, NatTrailingZeros(x)),
                        e |-> e + NatTrailingZeros(x)] :
                    x \in {m}} : TRUE

\* Of M with its k lowest bits cut off: they are above half a unit, or
\* half a unit with the rest odd.
F64RoundsUp(M, k, sticky) ==
    /\ k > 0
    /\ NatBit(M, k - 1) = 1
    /\ (sticky \/ ~NatLowZero(M, k - 1) \/ NatBit(M, k) = 1)

\* Round to nearest, ties to even, of (M + s) * 2^E to 53 bits, where
\* 0 < s < 1 when sticky (M then has more than 54 bits) and s = 0 otherwise.
F64Round(neg, M, E, sticky) ==
    CHOOSE f \in {F64Odd(neg,
                         IF F64RoundsUp(x, NatBitLen(x) - F64Bits, sticky)
                         THEN NatAdd(NatShr(x, NatBitLen(x) - F64Bits), <<1>>)
                         ELSE NatShr(x, Max(0, NatBitLen(x) - F64Bits)),
                         E + Max(0, NatBitLen(x) - F64Bits)) :
                    x \in {M}} : TRUE

\* One step of the binary long division by s.d: the next bit of s.q.
DivStep(s) ==
    CHOOSE n \in {IF NatCmp(twice, s.d) >= 0
                  THEN [q |-> NatAdd(NatAdd(s.q, s.q), <<1>>), r |-> NatSub(twice, s.d),
                        d |-> s.d, e |-> s.e - 1]
                  ELSE [q |-> NatAdd(s.q, s.q), r |-> twice, d |-> s.d, e |-> s.e - 1] :
                    twice \in {NatAdd(s.r, s.r)}} : TRUE

\* Binary long division: q and r < d with n / d = (q + r / d) * 2^e, until
\* the remainder is 0 or q has 55 bits.
RECURSIVE DivSteps(_)
DivSteps(s) ==
    IF s.r = <<>> \/ NatBitLen(s.q) >= F64Bits + 2 THEN s
    ELSE CHOOSE r \in {DivSteps(n) : n \in {DivStep(s)}} : TRUE

\* The division of n by d, both of the same number of bits.
DivAligned(n, d) ==
    CHOOSE s \in {DivSteps(IF NatCmp(x, y) >= 0
                           THEN [q |-> <<1>>, r |-> NatSub(x, y), d |-> y, e |-> 0]
                           ELSE [q |-> <<>>, r |-> x, d |-> y, e |-> 0]) :
                    x \in {n}, y \in {d}} : TRUE

\* The f64 nearest to (-1)^neg * n / d * 2^E, for n and d # 0.
QuotientValues(neg, n, d, E) ==
    IF n = <<>> THEN F64Zero
    ELSE CHOOSE f \in {F64Round(neg, s.q, E + NatBitLen(n) - NatBitLen(d) + s.e,
                                s.r # <<>>) :
                         s \in {DivAligned(NatShl(n, Max(0, NatBitLen(d) - NatBitLen(n))),
                                           NatShl(d, Max(0, NatBitLen(n) - NatBitLen(d))))}} :
           TRUE

F64Quotient(neg, n, d, E) ==
    CHOOSE f \in {QuotientValues(neg, x, y, E) : x \in {n}, y \in {d}} : TRUE

\* One step of the division of s.n by s.d < 2^19, from the upper limb down.
ShortDivStep(s) ==
    CHOOSE n \in {[n |-> s.n, d |-> s.d, i |-> s.i - 1, r |-> t % s.d,
                   q |-> <<t \div s.d>> \o s.q] :
                    t \in {s.r * Limb + s.n[s.i]}} : TRUE

RECURSIVE ShortDivFrom(_)
ShortDivFrom(s) ==
    IF s.i = 0 THEN [q |-> NatTrim(s.q), r |-> s.r]
    ELSE CHOOSE r \in {ShortDivFrom(n) : n \in {ShortDivStep(s)}} : TRUE

\* The quotient q and the remainder r of n by d, 0 < d < 2^19.
ShortDiv(n, d) ==
    CHOOSE r \in {ShortDivFrom([n |-> x, d |-> d, i |-> Len(x), r |-> 0, q |-> <<>>]) :
                    x \in {n}} : TRUE

\* The digits a division by a power of ten below a limb takes off.
DigitsAtOnce == CHOOSE k \in 1..LimbBits : Pow10(k) < Limb /\ Pow10(k + 1) >= Limb

\* The division of s.q by 10^s.exp, a few digits at a time; s.rest when a
\* remainder was left.
RECURSIVE DivPow10From(_)
DivPow10From(s) ==
    IF s.exp = 0 THEN s
    ELSE CHOOSE r \in {DivPow10From([q    |-> a.q,
                                     rest |-> s.rest \/ a.r # 0,
                                     exp  |-> s.exp - Min(s.exp, DigitsAtOnce)]) :
                         a \in {ShortDiv(s.q, Pow10(Min(s.exp, DigitsAtOnce)))}} : TRUE

\* The quotient of n by 10^exp and whether it leaves a remainder.
DivPow10(n, exp) == DivPow10From([q |-> n, rest |-> FALSE, exp |-> exp])

\* The f64 nearest to mant / 10^exp, mant # 0, from the quotient of
\* mant * 2^k by 10^exp, of 55 bits or more.
NearestF64(neg, mant, exp, k) ==
    CHOOSE f \in {F64Round(neg, d.q, -k, d.rest) :
                    d \in {DivPow10(NatShl(NatOf(mant), k), exp)}} : TRUE

\* str::parse::<f64> of a decimal: the f64 the model keeps as v.
AsF64(v) ==
    IF v.mant = 0 THEN F64Zero
    ELSE IF v.exp = 0 THEN F64Round(v.neg, NatOf(v.mant), 0, FALSE)
    ELSE NearestF64(v.neg, v.mant, v.exp,
                    Max(0, F64Bits + 2 + BitLen(Pow10(v.exp)) - BitLen(v.mant)))

\* The position of the leading bit of a # 0.
F64TopBit(a) == a.e + NatBitLen(a.m)

\* The exact sum of a and b as [neg, M, E].
ExactSum(a, b, E) ==
    CHOOSE s \in {IF a.neg = b.neg THEN [neg |-> a.neg, M |-> NatAdd(A, B), E |-> E]
                  ELSE IF NatCmp(A, B) >= 0 THEN [neg |-> a.neg, M |-> NatSub(A, B), E |-> E]
                  ELSE [neg |-> b.neg, M |-> NatSub(B, A), E |-> E] :
                    A \in {NatShl(a.m, a.e - E)}, B \in {NatShl(b.m, b.e - E)}} : TRUE

\* Beyond this many bits between the leading bits of two values, the
\* smaller one is below a quarter of a unit in the last place of the other.
F64Far == F64Bits + F64Bits \div 2

F64AddValues(a, b) ==
    IF a.m = <<>> THEN b
    ELSE IF b.m = <<>> THEN a
    ELSE IF F64TopBit(a) - F64TopBit(b) > F64Far THEN a
    ELSE IF F64TopBit(b) - F64TopBit(a) > F64Far THEN b
    ELSE CHOOSE f \in {F64Round(s.neg, s.M, s.E, FALSE) :
                         s \in {ExactSum(a, b, Min(a.e, b.e))}} : TRUE

\* a + b, the operands evaluated once
F64Add(a, b) == CHOOSE r \in {F64AddValues(x, y) : x \in {a}, y \in {b}} : TRUE

\* a - b
F64Sub(a, b) == F64Add(a, F64Neg(b))

\* a * b
F64Mul(a, b) ==
    CHOOSE r \in {F64Round(x.neg # y.neg, NatMul(x.m, y.m), x.e + y.e, FALSE) :
                    x \in {a}, y \in {b}} : TRUE

\* a / b, for b # 0
F64Div(a, b) ==
    CHOOSE r \in {F64Quotient(x.neg # y.neg, x.m, y.m, x.e - y.e) :
                    x \in {a}, y \in {b}} : TRUE

\* a < b
F64Lt(a, b) == \E d \in {F64Sub(a, b)} : d.neg

\* a <= b
F64Leq(a, b) == \E d \in {F64Sub(a, b)} : d.neg \/ d.m = <<>>

\* v.floor() as usize, for a value below 2^31: a negative value gives 0.
F64Floor(v) ==
    IF v.neg THEN 0
    ELSE IF v.e >= 0 THEN NatToInt(NatShl(v.m, v.e))
    ELSE NatToInt(NatShr(v.m, -v.e))

\* v.ceil() as usize, for a value below 2^31: a negative value gives 0.
F64Ceil(v) ==
    IF v.neg THEN 0
    ELSE IF v.e >= 0 THEN NatToInt(NatShl(v.m, v.e))
    ELSE NatToInt(NatShr(v.m, -v.e)) + 1

----------------------------------------------------------------------------

\* str::split_whitespace: the maximal runs of non-whitespace characters.
RECURSIVE SplitFrom(_, _, _)
SplitFrom(s, k, cur) ==
    IF k > Len(s)
    THEN IF cur = <<>> THEN <<>> ELSE <<cur>>
    ELSE IF IsWhitespace(s[k])
         THEN (IF cur = <<>> THEN <<>> ELSE <<cur>>) \o SplitFrom(s, k + 1, <<>>)
         ELSE SplitFrom(s, k + 1, Append(cur, s[k]))

SplitWhitespace(s) == SplitFrom(s, 1, <<>>)

\* str::split_at_checked(mid), of which the callers keep the second half.
SplitAtChecked(s, mid) ==
    IF mid <= Len(s) THEN Some(SubSeq(s, mid + 1, Len(s))) ELSE None

----------------------------------------------------------------------------
(* The snapshot store (DumpSnapshot).  keys is the HashMap<String, usize>, *)
(* a function from property names to column indices; atoms is the Vec<f64> *)
(* (Rust index k is atoms[k + 1]).                                         *)

\* HashMap::new()
EmptyMap == [k \in {} |-> 0]

\* HashMap::insert / entry(k).insert_entry(v): the old value is replaced.
MapInsert(m, k, v) == [x \in DOMAIN m \cup {k} |-> IF x = k THEN v ELSE m[x]]

\* HashMap::len
MapLen(m) == Cardinality(DOMAIN m)

DumpSnapshot_new(keys, step, atoms_count, box) ==
    [step        |-> step,
     atoms_count |-> atoms_count,
     atoms       |-> [k \in 1..(atoms_count * MapLen(keys)) |-> Zero],
     keys        |-> keys,
     sym_box     |-> box]

\* The Vec index of (property_index, atom_index) and whether indexing panics.
AtomOffset(s, property_index, atom_index) ==
    s.atoms_count * property_index + atom_index

OutOfBounds(s, property_index, atom_index) ==
    AtomOffset(s, property_index, atom_index) >= Len(s.atoms)

get_atom_value(s, property_index, atom_index) ==
    s.atoms[AtomOffset(s, property_index, atom_index) + 1]

set_atom_value(s, property_index, atom_index, value) ==
    [s EXCEPT !.atoms[AtomOffset(s, property_index, atom_index) + 1] = value]

\* get_property with the row-major offset: start = self.keys[key].
get_propertyRowMajor(s, key) ==
    SubSeq(s.atoms, s.keys[key] + 1, s.keys[key] + s.atoms_count)

\* get_property: &self.atoms[start..end], start = keys[key] * atoms_count.
get_property(s, key) ==
    SubSeq(s.atoms, s.keys[key] * s.atoms_count + 1,
           s.keys[key] * s.atoms_count + s.atoms_count)

\* self.keys[key] with an absent key and a slice past the buffer panic.
get_propertyPanics(s, key) ==
    \/ key \notin DOMAIN s.keys
    \/ s.keys[key] * s.atoms_count + s.atoms_count > Len(s.atoms)

\* get_keys: the names sorted by their column index.  The sort is stable
\* and starts from the hash map's iteration order, which is arbitrary, so
\* names that share an index come in any order: the set of the sequences
\* get_keys can return.
RECURSIVE KeysSortedFrom(_, _)
KeysSortedFrom(m, left) ==
    IF left = {} THEN {<<>>}
    ELSE UNION {{<<k>> \o rest : rest \in KeysSortedFrom(m, left \ {k})} :
                  k \in {k \in left : \A o \in left : m[k] <= m[o]}}

get_keys(s) == KeysSortedFrom(s.keys, DOMAIN s.keys)

\* get_keys().iter().enumerate(): the number of names, in any order.
get_keys_len(s) == Len(CHOOSE keys \in get_keys(s) : TRUE)

BoundingBox3_new(a, b) == [lower |-> a, upper |-> b]

----------------------------------------------------------------------------
(* DumpSnapshot::read, the parts that compute.                             *)

\* The three bounds lines: each is split on whitespace and its first two
\* tokens parsed as f32; a line with both is kept as <<lo, hi>>.
ParseBorder(l) ==
    LET s  == SplitWhitespace(l)
        lo == IF Len(s) >= 1 THEN ParseF32(s[1]) ELSE None
        hi == IF Len(s) >= 2 THEN ParseF32(s[2]) ELSE None
    IN  IF lo # None /\ hi # None THEN Some(<<lo[1], hi[1]>>) ELSE None

RECURSIVE ParseBorders(_)
ParseBorders(ls) ==
    IF ls = <<>> THEN <<>> ELSE ParseBorder(Head(ls)) \o ParseBorders(Tail(ls))

\* A reader that ignores what insert returns.
RECURSIVE ReadKeysOverwriting(_, _)
ReadKeysOverwriting(tokens, keys_map) ==
    IF tokens = <<>> THEN Some(keys_map)
    ELSE ReadKeysOverwriting(Tail(tokens),
                             MapInsert(keys_map, Head(tokens), MapLen(keys_map)))

\* The key tokens inserted one by one, each at index keys_map.len(): None
\* when an insert finds the token already present.
RECURSIVE ReadKeys(_, _)
ReadKeys(tokens, keys_map) ==
    IF tokens = <<>> THEN Some(keys_map)
    ELSE IF Head(tokens) \in DOMAIN keys_map THEN None
         ELSE ReadKeys(Tail(tokens),
                       MapInsert(keys_map, Head(tokens), MapLen(keys_map)))

\* l.split_whitespace().flat_map(str::parse::<f64>).collect(): a Result
\* iterates over its Ok value, so a token that fails to parse yields nothing.
RECURSIVE ParseRow(_)
ParseRow(tokens) ==
    IF tokens = <<>> THEN <<>>
    ELSE ParseFloat(Head(tokens)) \o ParseRow(Tail(tokens))

RowValues(l) == ParseRow(SplitWhitespace(l))

\* for (j, val) in values.into_iter().enumerate() { set_atom_value(j, i, val) }
RowPanics(s, i, values) ==
    \E j \in 0..(Len(values) - 1) : OutOfBounds(s, j, i)

RECURSIVE SetRow(_, _, _, _)
SetRow(s, i, values, j) ==
    IF j >= Len(values) THEN s
    ELSE SetRow(set_atom_value(s, j, i, values[j + 1]), i, values, j + 1)

----------------------------------------------------------------------------
(* The input files.  A file is written block by block; then at most one of *)
(* its lines is replaced by a malformed one, or the file is cut short, or  *)
(* a stray line is added at its end.                                       *)

RECURSIVE FormatNat(_)
FormatNat(n) ==
    IF n < 10 THEN <<DigitChars[n + 1]>>
    ELSE FormatNat(n \div 10) \o <<DigitChars[(n % 10) + 1]>>

RECURSIVE Flatten(_)
Flatten(ss) == IF ss = <<>> THEN <<>> ELSE Head(ss) \o Flatten(Tail(ss))

\* The tokens, each preceded by a space.
SpaceBefore(tokens) == Flatten([k \in 1..Len(tokens) |-> <<" ">> \o tokens[k]])

Steps == {100, 200, 300}

Requests ==
    {<<>>, <<100>>, <<200>>, <<300>>, <<200, 100>>, <<100, 300>>,
     <<300, 200>>, <<200, 200>>}

BoxTag == <<"p","p"," ","p","p"," ","f","f">>

KeyNames(k) ==
    IF k % 2 = 1 THEN << <<"i","d">>, <<"x">> >>
    ELSE << <<"x">>, <<"y">>, <<"i","d">> >>

\* Data row i (from 1) of a block with nk properties: "i i.2 ... i.nk".
RowLine(i, nk) ==
    FormatNat(i)
      \o SpaceBefore([j \in 1..(nk - 1) |-> FormatNat(i) \o <<".">> \o FormatNat(j + 1)])

\* Block k (from 1) of a file, for timestep `step` with n atoms.
Block(k, step, n) ==
    << HEADER_TIMESTEP,
       FormatNat(step),
       HEADER_NUM_OF_ATOMS,
       FormatNat(n),
       HEADER_SYM_BOX \o <<" ">> \o BoxTag,
       FormatNat(k - 1) \o <<" ">> \o FormatNat(10 + k),
       <<"-","5"," ","5">>,
       <<"0",".","5","\r","2","0">>,
       HEADER_ATOMS \o SpaceBefore(KeyNames(k)) >>
    \o [i \in 1..n |-> RowLine(i, Len(KeyNames(k)))]

Garbage == <<"x">>

\* The malformed lines tried in place of line j of block k.
BadLines(k, j) ==
    CASE j = 1 -> {Garbage, <<>>}
      [] j \in {2, 3, 4} -> {Garbage}
      [] j = 5 -> {Garbage,
                   HEADER_SYM_BOX,
                   <<"I","T","E","M",":"," ","B","O","X"," ","B","O","U","N","D","Z">>
                       \o <<" ">> \o BoxTag}
      [] j \in {6, 7, 8} -> {<<"x"," ","y">>, <<"0">>}
      [] j = 9 -> {Garbage,
                   <<"I","T","E","M",":"," ","A","T","O","M","Z">>
                       \o SpaceBefore(KeyNames(k)),
                   HEADER_ATOMS \o SpaceBefore(<< <<"i","d">>, <<"i","d">> >>)}
      [] OTHER -> {FormatNat(j - 9),
                   RowLine(j - 9, Len(KeyNames(k)) - 1) \o <<" ","x">>,
                   RowLine(j - 9, Len(KeyNames(k)) + 1)}

ReplaceLine(ls, j, l) == [ls EXCEPT ![j] = l]

\* The atom count of block k in a file whose first block has n0 atoms.
AtomCount(k, n0) == (n0 + k - 1) % (MaxAtoms + 1)

Blocks(steps, n0) == [k \in 1..Len(steps) |-> Block(k, steps[k], AtomCount(k, n0))]

StepSeqs == UNION {[1..m -> Steps] : m \in 0..MaxBlocks}

FilesOf(steps, n0) ==
    LET bs   == Blocks(steps, n0)
        good == Flatten(bs)
    IN  {good}
          \cup {Flatten([bs EXCEPT ![k] = ReplaceLine(bs[k], j, bad)]) :
                  <<k, j, bad>> \in UNION {UNION {{<<k, j, bad>> : bad \in BadLines(k, j)} :
                                             j \in 1..Len(bs[k])} : k \in 1..Len(bs)}}
          \cup {SubSeq(good, 1, m) : m \in 0..(Len(good) - 1)}
          \cup {Append(good, l) : l \in {Garbage, <<>>}}

Files == UNION {FilesOf(steps, n0) : steps \in StepSeqs, n0 \in 0..MaxAtoms}

----------------------------------------------------------------------------
(* DumpFile::read.                                                         *)

\* A line that BufReader::lines could not read: Err(io::Error).
ReadFailure == <<"Err(io::Error)">>

\* lines.next() after p lines were yielded; the iterator stays at the end.
\* map_while(Result::ok) yields None for a line that could not be read and
\* goes on with the line after it when it is asked again.
NextLine(p) ==
    IF p < Len(file) /\ file[p + 1] # ReadFailure THEN Some(file[p + 1]) ELSE None

Advance(p, n) == Min(p + n, Len(file))

\* A reader that forgets to sort the request.
SortKeepsOrder(s) == s

\* timesteps.sort_unstable()
RECURSIVE SortUnstable(_)
SortUnstable(s) ==
    IF s = <<>> THEN <<>>
    ELSE LET k == CHOOSE k \in 1..Len(s) : \A o \in 1..Len(s) : s[k] <= s[o]
         IN  <<s[k]>> \o SortUnstable([i \in 1..(Len(s) - 1) |-> IF i < k THEN s[i] ELSE s[i + 1]])

SortedTimesteps == SortUnstable(timesteps)

Contains(s, v) == \E k \in 1..Len(s) : s[k] = v

\* &timestep > timesteps.last().unwrap_or(&u64::MAX)
\* (no u64 exceeds u64::MAX)
BeyondLast(t) ==
    IF SortedTimesteps = <<>> THEN FALSE
    ELSE t > SortedTimesteps[Len(SortedTimesteps)]

Init ==
    /\ file \in Files
    /\ timesteps \in Requests
    /\ pos = 0
    /\ pc = "timestep"
    /\ timestep = 0
    /\ number_of_atoms = 0
    /\ sym_box = None
    /\ snapshot = None
    /\ row = 0
    /\ dump = EmptyMap
    /\ result = "Running"
    /\ input = None
    /\ op = [name |-> "none"]
    /\ outcome = "None"
    /\ output = None

Return(r) ==
    /\ pc' = "done"
    /\ result' = r

\* A reader that takes the end of the input for a missing timestep.
MatchTimestepStrict(header, n) ==
    IF header # None /\ n # None THEN "Some" ELSE "InvalidOrMissingTimestep"

\* The match of lines 59-66 on (header line kept by the filter, parsed number).
MatchTimestep(header, n) ==
    IF header # None /\ n # None THEN "Some"
    ELSE IF header = None THEN "Ok"
    ELSE "InvalidOrMissingTimestep"

\* Lines 59-66: the two lines of the timestep.
ReadTimestep ==
    /\ pc = "timestep"
    /\ LET first  == NextLine(pos)
           header == IF first # None /\ first[1] = HEADER_TIMESTEP THEN first ELSE None
           second == NextLine(Advance(pos, 1))
           n      == IF second # None THEN ParseUnsigned(second[1]) ELSE None
       IN  /\ pos' = Advance(pos, 2)
           /\ IF MatchTimestep(header, n) = "Some"
              THEN /\ timestep' = n[1]
                   /\ pc' = "count"
                   /\ UNCHANGED result
              ELSE /\ Return(MatchTimestep(header, n))
                   /\ UNCHANGED timestep
    /\ UNCHANGED storeVars
    /\ UNCHANGED <<file, timesteps, number_of_atoms, sym_box, snapshot, row, dump>>

\* Lines 67-74: the two lines of the atom count.
ReadNumberOfAtoms ==
    /\ pc = "count"
    /\ LET first  == NextLine(pos)
           header == IF first # None /\ first[1] = HEADER_NUM_OF_ATOMS THEN first ELSE None
           second == NextLine(Advance(pos, 1))
           n      == IF second # None THEN ParseUnsigned(second[1]) ELSE None
       IN  /\ pos' = Advance(pos, 2)
           /\ IF header # None /\ n # None
              THEN /\ number_of_atoms' = n[1]
                   /\ pc' = "decide"
                   /\ UNCHANGED result
              ELSE /\ Return("InvalidOrMissingNumberOfAtoms")
                   /\ UNCHANGED number_of_atoms
    /\ UNCHANGED storeVars
    /\ UNCHANGED <<file, timesteps, timestep, sym_box, snapshot, row, dump>>

\* A reader that skips a block beyond the last requested timestep and goes on.
StopBeyondLastSkips ==
    /\ pc = "decide"
    /\ timesteps # <<>>
    /\ BeyondLast(timestep)
    /\ pos' = Advance(pos, number_of_atoms + 4 + 1)
    /\ pc' = "timestep"
    /\ UNCHANGED storeVars
    /\ UNCHANGED <<file, timesteps, timestep, number_of_atoms, sym_box, snapshot, row,
                   dump, result>>

\* Lines 75-77: the block lies beyond the last requested timestep.
StopBeyondLast ==
    /\ pc = "decide"
    /\ timesteps # <<>>
    /\ BeyondLast(timestep)
    /\ Return("Ok")
    /\ UNCHANGED storeVars
    /\ UNCHANGED <<file, timesteps, pos, timestep, number_of_atoms, sym_box, snapshot,
                   row, dump>>

\* Lines 78-85: the block is not requested; 0..=(number_of_atoms + 4) lines
\* are dropped, fewer when the input ends.
SkipCountShort(n) == n + 4

SkipCount(n) == n + 4 + 1

\* for _ in 0..=(number_of_atoms + 4) { if lines.next().is_none() { break; } }
\* the position after the loop, which ends with the first line that yields
\* None.
SkipLines(p, n) ==
    IF \E j \in (p + 1)..Advance(p, n) : file[j] = ReadFailure
    THEN CHOOSE j \in (p + 1)..Advance(p, n) :
           /\ file[j] = ReadFailure
           /\ \A o \in (p + 1)..(j - 1) : file[o] # ReadFailure
    ELSE Advance(p, n)

SkipBlock ==
    /\ pc = "decide"
    /\ timesteps # <<>>
    /\ ~BeyondLast(timestep)
    /\ ~Contains(SortedTimesteps, timestep)
    /\ pos' = SkipLines(pos, SkipCount(number_of_atoms))
    /\ pc' = "timestep"
    /\ UNCHANGED storeVars
    /\ UNCHANGED <<file, timesteps, timestep, number_of_atoms, sym_box, snapshot, row,
                   dump, result>>

\* The block is to be materialised.
Selected ==
    \/ timesteps = <<>>
    \/ /\ ~BeyondLast(timestep)
       /\ Contains(SortedTimesteps, timestep)

\* A reader without the duplicate check.
NeverDuplicate(t) == FALSE

\* dump.snapshots.contains_key(&timestep)
IsDuplicate(t) == t \in DOMAIN dump

\* Lines 87-89.
DuplicateSnapshot ==
    /\ pc = "decide"
    /\ Selected
    /\ IsDuplicate(timestep)
    /\ Return("DuplicateSnapshots")
    /\ UNCHANGED storeVars
    /\ UNCHANGED <<file, timesteps, pos, timestep, number_of_atoms, sym_box, snapshot,
                   row, dump>>

\* DumpSnapshot::read lines 60-91: the box header and its three bounds.
BoxHeaderRest(l) == SplitAtChecked(l, Len(HEADER_SYM_BOX))

ReadSymBox ==
    /\ pc = "decide"
    /\ Selected
    /\ ~IsDuplicate(timestep)
    /\ LET first      == NextLine(pos)
           boundaries == IF first # None THEN BoxHeaderRest(first[1]) ELSE None
           p1         == Advance(pos, 1)
           ls         == [k \in 1..Min(3, Len(file) - p1) |-> file[p1 + k]]
           borders    == ParseBorders(ls)
       IN  IF boundaries = None
           THEN /\ pos' = p1
                /\ Return("MissingSymBox")
                /\ UNCHANGED sym_box
           ELSE /\ pos' = Advance(p1, 3)
                /\ IF Len(borders) # 3
                   THEN /\ Return("MissingSymBox")
                        /\ UNCHANGED sym_box
                   ELSE IF Len(boundaries[1]) < 1
                   THEN /\ Return("Panic")
                        /\ UNCHANGED sym_box
                   ELSE /\ sym_box' =
                             Some([boundaries |-> Tail(boundaries[1]),
                                   bbox |-> BoundingBox3_new(
                                       [a \in 1..3 |-> borders[a][1]],
                                       [a \in 1..3 |-> borders[a][2]])])
                        /\ pc' = "keys"
                        /\ UNCHANGED result
    /\ UNCHANGED storeVars
    /\ UNCHANGED <<file, timesteps, timestep, number_of_atoms, snapshot, row, dump>>

\* DumpSnapshot::read lines 93-107: the property keys and the empty store.
AtomsHeaderRest(l) == SplitAtChecked(l, Len(HEADER_ATOMS))

ReadAtomKeys ==
    /\ pc = "keys"
    /\ LET first  == NextLine(pos)
           tokens == IF first # None THEN AtomsHeaderRest(first[1]) ELSE None
           keys   == IF tokens # None
                     THEN ReadKeys(SplitWhitespace(tokens[1]), EmptyMap)
                     ELSE None
       IN  /\ pos' = Advance(pos, 1)
           /\ IF tokens = None
              THEN /\ Return("MissingAtomKeys")
                   /\ UNCHANGED <<snapshot, row>>
              ELSE IF keys = None
              THEN /\ Return("DuplicateAtomKeys")
                   /\ UNCHANGED <<snapshot, row>>
              ELSE /\ snapshot' =
                        Some(DumpSnapshot_new(keys[1], timestep, number_of_atoms, sym_box[1]))
                   /\ row' = 0
                   /\ pc' = "rows"
                   /\ UNCHANGED result
    /\ UNCHANGED storeVars
    /\ UNCHANGED <<file, timesteps, timestep, number_of_atoms, sym_box, dump>>

\* DumpSnapshot::read lines 108-116: one data row.
RowError(first) == IF first = None THEN "InvalidOrMissingAtomRow" ELSE "Accepted"

ReadAtomRow ==
    /\ pc = "rows"
    /\ row < number_of_atoms
    /\ LET first  == NextLine(pos)
           values == IF first # None THEN RowValues(first[1]) ELSE <<>>
       IN  /\ pos' = Advance(pos, 1)
           /\ IF RowError(first) # "Accepted"
              THEN /\ Return(RowError(first))
                   /\ UNCHANGED <<snapshot, row>>
              ELSE IF RowPanics(snapshot[1], row, values)
              THEN /\ Return("Panic")
                   /\ UNCHANGED <<snapshot, row>>
              ELSE /\ snapshot' = Some(SetRow(snapshot[1], row, values, 0))
                   /\ row' = row + 1
                   /\ UNCHANGED <<pc, result>>
    /\ UNCHANGED storeVars
    /\ UNCHANGED <<file, timesteps, timestep, number_of_atoms, sym_box, dump>>

\* DumpSnapshot::read line 117 and DumpFile::read line 91.
InsertSnapshot ==
    /\ pc = "rows"
    /\ row = number_of_atoms
    /\ dump' = MapInsert(dump, snapshot[1].step, snapshot[1])
    /\ pc' = "timestep"
    /\ UNCHANGED storeVars
    /\ UNCHANGED <<file, timesteps, pos, timestep, number_of_atoms, sym_box, snapshot,
                   row, result>>

Next ==
    \/ ReadTimestep
    \/ ReadNumberOfAtoms
    \/ StopBeyondLast
    \/ SkipBlock
    \/ DuplicateSnapshot
    \/ ReadSymBox
    \/ ReadAtomKeys
    \/ ReadAtomRow
    \/ InsertSnapshot

Spec == Init /\ [][Next]_vars

----------------------------------------------------------------------------
(* The block grammar of the dump format, read off the text of the file     *)
(* independently of the reader: the preconditions and the expected results *)
(* of the properties below are stated with it.                             *)

HasPrefix(l, prefix) ==
    Len(l) >= Len(prefix) /\ SubSeq(l, 1, Len(prefix)) = prefix

\* The number a line states, when it is an unsigned number (else -1).
NumberAt(p) ==
    IF p <= Len(file) /\ ParseUnsigned(file[p]) # None
    THEN ParseUnsigned(file[p])[1] ELSE -1

\* A line "<lo> <hi>" of two floating point tokens.
IsBoundsLine(l) ==
    /\ Len(SplitWhitespace(l)) = 2
    /\ \A k \in 1..2 : ParseFloat(SplitWhitespace(l)[k]) # None

\* A line "ITEM: BOX BOUNDS <tag>" with a tag.
IsBoxHeader(l) ==
    /\ HasPrefix(l, HEADER_SYM_BOX \o <<" ">>)
    /\ Len(l) > Len(HEADER_SYM_BOX) + 1

\* The key tokens of a line "ITEM: ATOMS <key1> ... <keyN>".
DeclaredKeys(l) == SplitWhitespace(SubSeq(l, Len(HEADER_ATOMS) + 1, Len(l)))

Distinct(s) == \A a, b \in 1..Len(s) : s[a] = s[b] => a = b

IsAtomsHeader(l) ==
    /\ HasPrefix(l, HEADER_ATOMS)
    /\ Len(l) > Len(HEADER_ATOMS) => IsWhitespace(l[Len(HEADER_ATOMS) + 1])
    /\ Distinct(DeclaredKeys(l))

\* A data row of exactly nk floating point tokens.
IsDataRow(l, nk) ==
    /\ Len(SplitWhitespace(l)) = nk
    /\ \A k \in 1..nk : ParseFloat(SplitWhitespace(l)[k]) # None

\* A complete, well-formed block starts after the first p lines.
WellFormedBlockAt(p) ==
    /\ p + 9 <= Len(file)
    /\ file[p + 1] = HEADER_TIMESTEP
    /\ NumberAt(p + 2) >= 0
    /\ file[p + 3] = HEADER_NUM_OF_ATOMS
    /\ NumberAt(p + 4) >= 0
    /\ IsBoxHeader(file[p + 5])
    /\ \A a \in 1..3 : IsBoundsLine(file[p + 5 + a])
    /\ IsAtomsHeader(file[p + 9])
    /\ p + 9 + NumberAt(p + 4) <= Len(file)
    /\ \A i \in 1..NumberAt(p + 4) :
          IsDataRow(file[p + 9 + i], Len(DeclaredKeys(file[p + 9])))

\* The file is a sequence of complete well-formed blocks from line p + 1 on.
RECURSIVE WellFormedFrom(_)
WellFormedFrom(p) ==
    \/ p = Len(file)
    \/ /\ WellFormedBlockAt(p)
       /\ WellFormedFrom(p + 9 + NumberAt(p + 4))

\* Where the blocks of a well-formed file start (lines before each block).
RECURSIVE BlockStartsFrom(_)
BlockStartsFrom(p) ==
    IF p >= Len(file) THEN <<>>
    ELSE <<p>> \o BlockStartsFrom(p + 9 + NumberAt(p + 4))

BlockStarts == BlockStartsFrom(0)

StepOf(p) == NumberAt(p + 2)

CountOf(p) == NumberAt(p + 4)

\* The requested timesteps as a set, and whether t is asked for.
Requested == {timesteps[k] : k \in 1..Len(timesteps)}

Wanted(t) == timesteps = <<>> \/ t \in Requested

MaxRequested == CHOOSE t \in Requested : \A o \in Requested : o <= t

StepsIncreasing ==
    \A a, b \in 1..Len(BlockStarts) :
        a < b => StepOf(BlockStarts[a]) < StepOf(BlockStarts[b])

\* The box a block declares.
DeclaredBox(p) ==
    [boundaries |-> SubSeq(file[p + 5], Len(HEADER_SYM_BOX) + 2, Len(file[p + 5])),
     bbox |-> [lower |-> [a \in 1..3 |-> ParseF32(SplitWhitespace(file[p + 5 + a])[1])[1]],
               upper |-> [a \in 1..3 |-> ParseF32(SplitWhitespace(file[p + 5 + a])[2])[1]]]]

\* The column map a block declares: the k-th key at column k - 1.
DeclaredColumns(p) ==
    LET ks == DeclaredKeys(file[p + 9])
    IN  [name \in {ks[k] : k \in 1..Len(ks)} |->
            (CHOOSE k \in 1..Len(ks) : ks[k] = name) - 1]

----------------------------------------------------------------------------
(* C1: for a well-formed file whose blocks have increasing timesteps, read *)
(* succeeds and returns a store for exactly the timesteps of the file that *)
(* are requested (all of them when the request is empty); each store has   *)
(* its block's timestep, atom count, property keys in declared order and   *)
(* box.                                                                    *)
ReadWellFormedReturnsRequested ==
    (pc = "done" /\ WellFormedFrom(0) /\ StepsIncreasing) =>
        /\ result = "Ok"
        /\ DOMAIN dump =
             {StepOf(BlockStarts[b]) : b \in {b \in 1..Len(BlockStarts) :
                                                Wanted(StepOf(BlockStarts[b]))}}
        /\ \A b \in 1..Len(BlockStarts) :
             LET p == BlockStarts[b]
             IN  Wanted(StepOf(p)) =>
                   /\ dump[StepOf(p)].step = StepOf(p)
                   /\ dump[StepOf(p)].atoms_count = CountOf(p)
                   /\ dump[StepOf(p)].keys = DeclaredColumns(p)
                   /\ get_keys(dump[StepOf(p)]) = {DeclaredKeys(file[p + 9])}
                   /\ dump[StepOf(p)].sym_box = DeclaredBox(p)

\* Two blocks with different schemas were both read on an unsorted request.
ReadWellFormedWitness ==
    /\ pc = "done"
    /\ WellFormedFrom(0)
    /\ StepsIncreasing
    /\ Len(BlockStarts) = 2
    /\ timesteps = <<200, 100>>
    /\ DOMAIN dump = {100, 200}
    /\ dump[100].keys # dump[200].keys
    /\ dump[100].atoms_count + dump[200].atoms_count > 0

\* The reader is about to materialise the block whose count it has just read.
Materialising ==
    /\ pc = "decide"
    /\ Wanted(timestep)
    /\ timestep \notin DOMAIN dump

\* The reader is about to read a data row that is present in the input.
RowToRead ==
    /\ pc = "rows"
    /\ row < number_of_atoms
    /\ pos < Len(file)

\* A row with too few tokens or with a token that is no number.
ShortOrNonNumeric(l, nk) ==
    \/ Len(SplitWhitespace(l)) < nk
    \/ \E k \in 1..Len(SplitWhitespace(l)) : ParseFloat(SplitWhitespace(l)[k]) = None

(* C2: a data row is accepted only if it has exactly num_properties        *)
(* numeric tokens; a row with too few tokens or with a non-numeric token   *)
(* makes the read fail with InvalidOrMissingAtomRow.                       *)
MalformedRowIsRejected ==
    [][ RowToRead =>
          LET nk == MapLen(snapshot[1].keys)
          IN  /\ ~IsDataRow(file[pos + 1], nk) => pc' = "done"
              /\ ShortOrNonNumeric(file[pos + 1], nk) =>
                    result' = "InvalidOrMissingAtomRow" ]_vars

(* C3: a complete block that is not requested and not beyond the largest   *)
(* requested timestep creates no store, and exactly the rest of the block  *)
(* (box header, three bounds, atoms header, atom_count rows) is consumed,  *)
(* so that the reader is at the start of the following block.              *)
SkipConsumesRestOfBlock ==
    [][ ( /\ pc = "decide"
          /\ timesteps # <<>>
          /\ timestep \notin Requested
          /\ timestep <= MaxRequested
          /\ pos + 5 + number_of_atoms <= Len(file) ) =>
        ( /\ pos' = pos + 5 + number_of_atoms
          /\ pc' = "timestep"
          /\ dump' = dump
          /\ result' = "Running"
          /\ WellFormedFrom(pos - 4) =>
                (pos' = Len(file) \/ file[pos' + 1] = HEADER_TIMESTEP) ) ]_vars

\* The first block was skipped and the requested block after it was read.
SkipWitness ==
    /\ pc = "done"
    /\ result = "Ok"
    /\ timesteps = <<200>>
    /\ WellFormedFrom(0)
    /\ Len(BlockStarts) = 2
    /\ StepOf(BlockStarts[1]) = 100
    /\ CountOf(BlockStarts[1]) > 0
    /\ DOMAIN dump = {200}
    /\ dump[200].keys = DeclaredColumns(BlockStarts[2])
    /\ dump[200].atoms_count = CountOf(BlockStarts[2])

(* C4: at a block whose timestep is greater than the largest requested     *)
(* one (its atom-count line read), read stops at once with success and the *)
(* stores it has: no further line is consumed; and nothing happens after   *)
(* read has returned.                                                      *)
StopsBeyondLargestRequested ==
    [][ /\ (pc = "decide" /\ timesteps # <<>> /\ timestep > MaxRequested) =>
            (pc' = "done" /\ result' = "Ok" /\ dump' = dump /\ pos' = pos)
        /\ pc = "done" => FALSE ]_vars

\* Read stopped at a block beyond the request with lines left and a store read.
StopWitness ==
    /\ pc = "done"
    /\ result = "Ok"
    /\ timesteps # <<>>
    /\ pos >= 4
    /\ pos < Len(file)
    /\ file[pos - 3] = HEADER_TIMESTEP
    /\ NumberAt(pos - 2) > MaxRequested
    /\ file[pos - 1] = HEADER_NUM_OF_ATOMS
    /\ DOMAIN dump # {}

(* C5: when the input ends where a block would start, read returns success *)
(* with the stores materialised so far.                                    *)
EndOfInputIsSuccess ==
    [][ (pc = "timestep" /\ pos = Len(file)) =>
            (pc' = "done" /\ result' = "Ok" /\ dump' = dump) ]_vars

\* The request names a timestep larger than any of the file; the input ended
\* at a block boundary and the requested blocks that exist were returned.
EndOfInputWitness ==
    /\ pc = "done"
    /\ result = "Ok"
    /\ pos = Len(file)
    /\ WellFormedFrom(0)
    /\ timesteps # <<>>
    /\ \A b \in 1..Len(BlockStarts) : StepOf(BlockStarts[b]) < MaxRequested
    /\ DOMAIN dump # {}
    /\ Cardinality(DOMAIN dump) < Len(BlockStarts)

(* C6: read returns success without a further block only at the true end   *)
(* of the input: a line that is present where a block should start and is  *)
(* not the timestep header followed by an unsigned number makes the read   *)
(* fail with InvalidOrMissingTimestep.                                     *)
BadBlockStartIsAnError ==
    [][ ( /\ pc = "timestep"
          /\ pos < Len(file)
          /\ ~(file[pos + 1] = HEADER_TIMESTEP /\ NumberAt(pos + 2) >= 0) ) =>
        result' = "InvalidOrMissingTimestep" ]_vars

(* C7: in a block that is materialised, a line present after the atom      *)
(* count that does not begin with 'ITEM: BOX BOUNDS' fails the read with   *)
(* MissingSymBox, and a line present after the three bounds lines that     *)
(* does not begin with 'ITEM: ATOMS' fails it with MissingAtomKeys.        *)
HeaderLiteralsAreChecked ==
    [][ /\ ( /\ Materialising
             /\ pos < Len(file)
             /\ ~HasPrefix(file[pos + 1], HEADER_SYM_BOX) ) =>
           result' = "MissingSymBox"
        /\ ( /\ pc = "keys"
             /\ pos < Len(file)
             /\ ~HasPrefix(file[pos + 1], HEADER_ATOMS) ) =>
           result' = "MissingAtomKeys" ]_vars

\* How many of the (up to) three lines after line p are 'lo hi' pairs.
GoodBoundsAfter(p) ==
    Cardinality({a \in 1..3 : p + a <= Len(file) /\ ParseBorder(file[p + a]) # None})

(* C8: each malformed element aborts the read with its own error kind: a   *)
(* missing or invalid atom-count header or value gives                     *)
(* InvalidOrMissingNumberOfAtoms; in a block being materialised, a missing *)
(* box header line (none, or one shorter than the literal) or fewer than   *)
(* three bounds lines that parse as 'lo hi' give MissingSymBox, a missing  *)
(* key line (none, or one shorter than the literal) gives MissingAtomKeys, *)
(* a repeated key gives DuplicateAtomKeys, and the input ending before     *)
(* atom_count rows gives InvalidOrMissingAtomRow.                          *)
MalformedElementsAbort ==
    [][ /\ ( /\ pc = "count"
             /\ ~( /\ pos + 2 <= Len(file)
                   /\ file[pos + 1] = HEADER_NUM_OF_ATOMS
                   /\ NumberAt(pos + 2) >= 0 ) ) =>
           (pc' = "done" /\ result' = "InvalidOrMissingNumberOfAtoms")
        /\ ( /\ Materialising
             /\ \/ pos = Len(file)
                \/ Len(file[pos + 1]) < Len(HEADER_SYM_BOX)
                \/ GoodBoundsAfter(pos + 1) < 3 ) =>
           (pc' = "done" /\ result' = "MissingSymBox")
        /\ ( /\ pc = "keys"
             /\ \/ pos = Len(file)
                \/ Len(file[pos + 1]) < Len(HEADER_ATOMS) ) =>
           (pc' = "done" /\ result' = "MissingAtomKeys")
        /\ ( /\ pc = "keys"
             /\ pos < Len(file)
             /\ Len(file[pos + 1]) >= Len(HEADER_ATOMS)
             /\ ~Distinct(DeclaredKeys(file[pos + 1])) ) =>
           (pc' = "done" /\ result' = "DuplicateAtomKeys")
        /\ (pc = "rows" /\ row < number_of_atoms /\ pos = Len(file)) =>
           (pc' = "done" /\ result' = "InvalidOrMissingAtomRow") ]_vars

\* A block declared a key twice and the read failed, after a block was read.
MalformedWitness ==
    /\ pc = "done"
    /\ result = "DuplicateAtomKeys"
    /\ pos >= 1
    /\ ~Distinct(DeclaredKeys(file[pos]))
    /\ DOMAIN dump # {}

(* C9: a block selected for materialisation whose timestep already has a   *)
(* store fails the read with DuplicateSnapshots before any line of its     *)
(* body is read; a store is only ever added under a new timestep, so no    *)
(* store of a successful result has replaced another.                      *)
DuplicateTimestepIsAnError ==
    [][ /\ (pc = "decide" /\ Wanted(timestep) /\ timestep \in DOMAIN dump) =>
           (pc' = "done" /\ result' = "DuplicateSnapshots" /\ pos' = pos)
        /\ dump' # dump =>
           /\ \A t \in DOMAIN dump : t \in DOMAIN dump' /\ dump'[t] = dump[t]
           /\ Cardinality(DOMAIN dump') = Cardinality(DOMAIN dump) + 1 ]_vars

\* The second block of the file repeated the timestep of the first.
DuplicateWitness ==
    /\ pc = "done"
    /\ result = "DuplicateSnapshots"
    /\ timestep \in DOMAIN dump
    /\ pos < Len(file)
    /\ WellFormedFrom(0)

----------------------------------------------------------------------------
(* The transforms of a store: the copy_snapshot family and                 *)
(* Clusterizer::new.  Each yields [panic, snapshot]: indexing a Vec out of *)
(* its bounds, indexing a HashMap with an absent key and a failed assert   *)
(* panic.                                                                  *)

\* for key in additional_keys { keys.insert(key.to_string(), keys.len()); }
RECURSIVE InsertKeys(_, _)
InsertKeys(keys, additional_keys) ==
    IF additional_keys = <<>> THEN keys
    ELSE InsertKeys(MapInsert(keys, Head(additional_keys), MapLen(keys)),
                    Tail(additional_keys))

\* The copy loop, cell by cell: cell c is row c \div nj (of `rows`), column
\* c % nj; snapshot.set_atom_value(j, new_i, input.get_atom_value(j, i)).
RECURSIVE CopyCells(_, _, _, _, _)
CopyCells(target, source, rows, nj, c) ==
    IF c >= Len(rows) * nj THEN [panic |-> FALSE, snapshot |-> target]
    ELSE LET new_i == c \div nj
             j     == c % nj
             i     == rows[new_i + 1]
         IN  IF OutOfBounds(source, j, i) \/ OutOfBounds(target, j, new_i)
             THEN [panic |-> TRUE, snapshot |-> target]
             ELSE CopyCells(set_atom_value(target, j, new_i,
                                           get_atom_value(source, j, i)),
                            source, rows, nj, c + 1)

\* copy_snapshot_with_indices_with_keys with keys.len() taken once, before
\* the loop over additional_keys.
copy_snapshot_with_indices_with_keysFixedLen(input_snapshot, additional_keys, indices) ==
    LET keys == [name \in DOMAIN input_snapshot.keys
                          \cup {additional_keys[k] : k \in 1..Len(additional_keys)} |->
                   IF name \in DOMAIN input_snapshot.keys
                   THEN input_snapshot.keys[name]
                   ELSE MapLen(input_snapshot.keys)]
        new  == DumpSnapshot_new(keys, input_snapshot.step, Len(indices),
                                 input_snapshot.sym_box)
    IN  CopyCells(new, input_snapshot, indices, get_keys_len(input_snapshot), 0)

copy_snapshot_with_indices_with_keys(input_snapshot, additional_keys, indices) ==
    LET keys == InsertKeys(input_snapshot.keys, additional_keys)
        new  == DumpSnapshot_new(keys, input_snapshot.step, Len(indices),
                                 input_snapshot.sym_box)
    IN  CopyCells(new, input_snapshot, indices, get_keys_len(input_snapshot), 0)

\* 0..input_snapshot.atoms_count
AllRows(s) == [k \in 1..s.atoms_count |-> k - 1]

copy_snapshot(input_snapshot) ==
    copy_snapshot_with_indices_with_keys(input_snapshot, <<>>, AllRows(input_snapshot))

\* copy_snapshot_with_indices that copies row new_i instead of row i.
copy_snapshot_with_indicesInPlace(input_snapshot, indices) ==
    copy_snapshot_with_indices_with_keys(input_snapshot, <<>>,
                                         [k \in 1..Len(indices) |-> k - 1])

copy_snapshot_with_indices(input_snapshot, indices) ==
    copy_snapshot_with_indices_with_keys(input_snapshot, <<>>, indices)

copy_snapshot_with_keys(input_snapshot, additional_keys) ==
    copy_snapshot_with_indices_with_keys(input_snapshot, additional_keys,
                                         AllRows(input_snapshot))

\* cutoff >= 0.0
NonNegative(v) == ~v.neg \/ v.mant = 0

KeyCluster == <<"c","l","u","s","t","e","r">>

KeyX == <<"x">>

KeyY == <<"y">>

KeyZ == <<"z">>

KeyId == <<"i","d">>

KeyMass == <<"m","a","s","s">>

\* Clusterizer::new: the store with a 'cluster' column; [panic, snapshot,
\* x_j, y_j, z_j, cutoff].
Clusterizer_new(snapshot_input, cutoff) ==
    LET cluster_j == MapLen(snapshot_input.keys)
        keys      == MapInsert(snapshot_input.keys, KeyCluster, cluster_j)
        new       == DumpSnapshot_new(keys, snapshot_input.step,
                                      snapshot_input.atoms_count,
                                      snapshot_input.sym_box)
        copied    == CopyCells(new, snapshot_input, AllRows(snapshot_input),
                               get_keys_len(snapshot_input), 0)
    IN  IF ~NonNegative(cutoff) \/ ~({KeyX, KeyY, KeyZ} \subseteq DOMAIN keys)
        THEN [panic |-> TRUE, snapshot |-> new, x_j |-> 0, y_j |-> 0, z_j |-> 0,
              cutoff |-> cutoff]
        ELSE [panic |-> copied.panic, snapshot |-> copied.snapshot,
              x_j |-> keys[KeyX], y_j |-> keys[KeyY], z_j |-> keys[KeyZ],
              cutoff |-> cutoff]

----------------------------------------------------------------------------
(* The stores the transforms are called on: stores as DumpSnapshot::read   *)
(* builds them, from a key declaration and rows of numbers.                *)

Schemas ==
    { <<KeyId, KeyX, KeyY, KeyZ>>,
      <<KeyX, KeyY, KeyZ, KeyId, KeyCluster>>,
      <<KeyId, KeyX>> }

Number(n) == [neg |-> FALSE, mant |-> n, exp |-> 0]

InputBox ==
    [boundaries |-> BoxTag,
     bbox |-> BoundingBox3_new([a \in 1..3 |-> Zero], [a \in 1..3 |-> Number(10)])]

\* Row i (from 0) holds 10 * (j + 1) + i in column j.
RECURSIVE FillRows(_, _)
FillRows(s, i) ==
    IF i >= s.atoms_count THEN s
    ELSE FillRows(SetRow(s, i, [k \in 1..MapLen(s.keys) |-> Number(10 * k + i)], 0),
                  i + 1)

InputStore(schema, n) ==
    FillRows(DumpSnapshot_new(ReadKeys(schema, EmptyMap)[1], 100, n, InputBox), 0)

InputStores == {InputStore(schema, n) : schema \in Schemas, n \in 0..MaxRows}

\* Row lists: indices 0..atoms_count, the last one past the rows.
IndexLists(s) == UNION {[1..m -> 0..s.atoms_count] : m \in 0..MaxIndices}

KeyLists == UNION {[1..m -> {KeyCluster, KeyId, KeyMass}] : m \in 0..MaxKeys}

Cutoffs == {Zero, Number(1), [neg |-> TRUE, mant |-> 1, exp |-> 0]}

InitStore ==
    /\ input \in {Some(s) : s \in InputStores}
    /\ op = [name |-> "none"]
    /\ outcome = "None"
    /\ output = None
    /\ file = <<>>
    /\ timesteps = <<>>
    /\ pos = 0
    /\ pc = "done"
    /\ timestep = 0
    /\ number_of_atoms = 0
    /\ sym_box = None
    /\ snapshot = None
    /\ row = 0
    /\ dump = EmptyMap
    /\ result = "Running"

Produce(r) ==
    /\ outcome' = IF r.panic THEN "Panic" ELSE "Ok"
    /\ output' = IF r.panic THEN None ELSE Some(r.snapshot)
    /\ UNCHANGED input
    /\ UNCHANGED readVars

CopySnapshot ==
    /\ outcome = "None"
    /\ op' = [name |-> "copy_snapshot"]
    /\ Produce(copy_snapshot(input[1]))

CopySnapshotWithIndices ==
    /\ outcome = "None"
    /\ \E indices \in IndexLists(input[1]) :
         /\ op' = [name |-> "copy_snapshot_with_indices", indices |-> indices]
         /\ Produce(copy_snapshot_with_indices(input[1], indices))

CopySnapshotWithKeys ==
    /\ outcome = "None"
    /\ \E additional_keys \in KeyLists :
         /\ op' = [name |-> "copy_snapshot_with_keys", keys |-> additional_keys]
         /\ Produce(copy_snapshot_with_keys(input[1], additional_keys))

CopySnapshotWithIndicesWithKeys ==
    /\ outcome = "None"
    /\ \E additional_keys \in KeyLists, indices \in IndexLists(input[1]) :
         /\ op' = [name |-> "copy_snapshot_with_indices_with_keys",
                   keys |-> additional_keys, indices |-> indices]
         /\ Produce(copy_snapshot_with_indices_with_keys(input[1], additional_keys,
                                                         indices))

NewClusterizer ==
    /\ outcome = "None"
    /\ \E cutoff \in Cutoffs :
         /\ op' = [name |-> "Clusterizer::new", cutoff |-> cutoff]
         /\ Produce(Clusterizer_new(input[1], cutoff))

\* get_property(key): the slice is recorded with the call.
GetProperty ==
    /\ outcome = "None"
    /\ \E key \in DOMAIN input[1].keys \cup {KeyMass} :
         /\ op' = [name |-> "get_property", key |-> key,
                   value |-> IF get_propertyPanics(input[1], key) THEN None
                             ELSE Some(get_property(input[1], key))]
         /\ outcome' = IF get_propertyPanics(input[1], key) THEN "Panic" ELSE "Ok"
    /\ output' = None
    /\ UNCHANGED input
    /\ UNCHANGED readVars

\* get_atom_value(keys[key], atom_index): the cell is recorded with the call.
GetAtomValue ==
    /\ outcome = "None"
    /\ \E key \in DOMAIN input[1].keys, atom_index \in 0..input[1].atoms_count :
         /\ op' = [name |-> "get_atom_value", key |-> key, atom_index |-> atom_index,
                   value |-> IF OutOfBounds(input[1], input[1].keys[key], atom_index)
                             THEN None
                             ELSE Some(get_atom_value(input[1], input[1].keys[key],
                                                      atom_index))]
         /\ outcome' = IF OutOfBounds(input[1], input[1].keys[key], atom_index)
                       THEN "Panic" ELSE "Ok"
    /\ output' = None
    /\ UNCHANGED input
    /\ UNCHANGED readVars

\* set_atom_value(keys[key], atom_index, value) on the store.
SetAtomValue ==
    /\ outcome = "None"
    /\ \E key \in DOMAIN input[1].keys, atom_index \in 0..input[1].atoms_count :
         /\ op' = [name |-> "set_atom_value", key |-> key,
                   atom_index |-> atom_index, value |-> Number(7)]
         /\ Produce([panic |-> OutOfBounds(input[1], input[1].keys[key], atom_index),
                     snapshot |-> IF OutOfBounds(input[1], input[1].keys[key], atom_index)
                                  THEN input[1]
                                  ELSE set_atom_value(input[1], input[1].keys[key],
                                                      atom_index, Number(7))])

\* copy_snapshot_with_indices(&copy_snapshot_with_indices(S, a), b): b is
\* drawn from the rows of the first result and one past them.
CopySnapshotWithIndicesTwice ==
    /\ outcome = "None"
    /\ \E a \in IndexLists(input[1]) :
         \E b \in UNION {[1..m -> 0..Len(a)] : m \in 0..MaxIndices} :
           LET first == copy_snapshot_with_indices(input[1], a)
           IN  /\ op' = [name |-> "copy_snapshot_with_indices twice",
                         a |-> a, b |-> b]
               /\ Produce(IF first.panic THEN first
                          ELSE copy_snapshot_with_indices(first.snapshot, b))

NextStore ==
    \/ CopySnapshotWithIndicesTwice
    \/ GetProperty
    \/ GetAtomValue
    \/ SetAtomValue
    \/ CopySnapshot
    \/ CopySnapshotWithIndices
    \/ CopySnapshotWithKeys
    \/ CopySnapshotWithIndicesWithKeys
    \/ NewClusterizer

SpecStore == InitStore /\ [][NextStore]_vars

\* The column map is a bijection from the property names onto
\* [0, num_properties) and the buffer holds atoms_count * num_properties values.
WellShaped(s) ==
    /\ {s.keys[name] : name \in DOMAIN s.keys} = 0..(MapLen(s.keys) - 1)
    /\ Len(s.atoms) = s.atoms_count * MapLen(s.keys)

(* C10: every store produced by DumpSnapshot::new/read, by the             *)
(* copy_snapshot family (for every row list and every list of additional   *)
(* names, also names already in the schema or repeated) and by             *)
(* Clusterizer::new has a column map that is a bijection onto              *)
(* [0, num_properties) and a buffer of atoms_count * num_properties values.*)
ProducedStoresAreWellShaped ==
    /\ input # None => WellShaped(input[1])
    /\ output # None => WellShaped(output[1])

(* C11: for a store, a property p of its schema and a row i < atoms_count: *)
(* get_property(p) has atoms_count entries and entry i is                  *)
(* get_atom_value(column(p), i), the buffer cell at offset                 *)
(* column(p) * atoms_count + i; after set_atom_value(column(p), i, v) both *)
(* give v, and every other cell, atoms_count and the column map are as     *)
(* before.                                                                 *)
PropertyCellsAgree ==
    /\ (op.name = "get_property" /\ op.key \in DOMAIN input[1].keys) =>
          /\ outcome = "Ok"
          /\ Len(op.value[1]) = input[1].atoms_count
          /\ \A i \in 0..(input[1].atoms_count - 1) :
                /\ op.value[1][i + 1] =
                       get_atom_value(input[1], input[1].keys[op.key], i)
                /\ op.value[1][i + 1] =
                       input[1].atoms[input[1].keys[op.key] * input[1].atoms_count
                                      + i + 1]
    /\ (op.name = "set_atom_value" /\ op.atom_index < input[1].atoms_count) =>
          /\ outcome = "Ok"
          /\ get_atom_value(output[1], input[1].keys[op.key], op.atom_index)
                = op.value
          /\ get_property(output[1], op.key)[op.atom_index + 1] = op.value
          /\ output[1].atoms_count = input[1].atoms_count
          /\ output[1].keys = input[1].keys
          /\ Len(output[1].atoms) = Len(input[1].atoms)
          /\ \A c \in 1..Len(input[1].atoms) :
                c # input[1].keys[op.key] * input[1].atoms_count + op.atom_index + 1
                  => output[1].atoms[c] = input[1].atoms[c]

\* The second row of a later column was set, or read, in a store of two
\* or more rows.
PropertyCellsWitness ==
    /\ op.name \in {"set_atom_value", "get_property"}
    /\ outcome = "Ok"
    /\ input[1].atoms_count >= 2
    /\ input[1].keys[op.key] >= 1
    /\ \/ op.name = "set_atom_value" /\ op.atom_index = 1
          /\ input[1].atoms # output[1].atoms
       \/ op.name = "get_property" /\ op.value[1][2] # op.value[1][1]

\* Every index of the list is a row of the store.
IndicesInto(s, indices) == \A k \in 1..Len(indices) : indices[k] < s.atoms_count

(* C12: copy_snapshot_with_indices(S, I), I a list of rows of S, returns a *)
(* store with atoms_count = |I|, the schema, step and box of S, and in row *)
(* k, for every property, the value of S at row I[k], in the order of I    *)
(* (unsorted and repeated indices included).  S is borrowed immutably.     *)
SubsetCopiesRowsInOrder ==
    (op.name = "copy_snapshot_with_indices" /\ IndicesInto(input[1], op.indices)) =>
      /\ outcome = "Ok"
      /\ output[1].atoms_count = Len(op.indices)
      /\ output[1].keys = input[1].keys
      /\ output[1].step = input[1].step
      /\ output[1].sym_box = input[1].sym_box
      /\ Len(output[1].atoms) = Len(op.indices) * MapLen(input[1].keys)
      /\ \A k \in 1..Len(op.indices), p \in DOMAIN input[1].keys :
            output[1].atoms[input[1].keys[p] * Len(op.indices) + k] =
              input[1].atoms[input[1].keys[p] * input[1].atoms_count
                             + op.indices[k] + 1]

\* A later row was copied before an earlier one.
SubsetWitness ==
    /\ op.name = "copy_snapshot_with_indices"
    /\ outcome = "Ok"
    /\ Len(op.indices) = 2
    /\ op.indices[1] > op.indices[2]
    /\ output[1].atoms # input[1].atoms

(* C13: copy_snapshot_with_keys(S, K), K a list of distinct names that are *)
(* not in the schema of S, returns a store with the atoms_count, step and  *)
(* box of S, every property of S at its column index with its values, and  *)
(* the names of K at the column indices N, N+1, ... in the order given     *)
(* (N the number of properties of S), each a column of zeros.              *)
ExtendAppendsZeroColumns ==
    ( /\ op.name = "copy_snapshot_with_keys"
      /\ Distinct(op.keys)
      /\ \A k \in 1..Len(op.keys) : op.keys[k] \notin DOMAIN input[1].keys ) =>
      /\ outcome = "Ok"
      /\ output[1].atoms_count = input[1].atoms_count
      /\ output[1].step = input[1].step
      /\ output[1].sym_box = input[1].sym_box
      /\ DOMAIN output[1].keys =
            DOMAIN input[1].keys \cup {op.keys[k] : k \in 1..Len(op.keys)}
      /\ Len(output[1].atoms) =
            input[1].atoms_count * (MapLen(input[1].keys) + Len(op.keys))
      /\ \A p \in DOMAIN input[1].keys :
            /\ output[1].keys[p] = input[1].keys[p]
            /\ get_property(output[1], p) = get_property(input[1], p)
      /\ \A k \in 1..Len(op.keys) :
            /\ output[1].keys[op.keys[k]] = MapLen(input[1].keys) + k - 1
            /\ \A i \in 0..(input[1].atoms_count - 1) :
                  output[1].atoms[(MapLen(input[1].keys) + k - 1)
                                  * input[1].atoms_count + i + 1] = Zero

\* Two new names were appended to a store with rows.
ExtendWitness ==
    /\ op.name = "copy_snapshot_with_keys"
    /\ outcome = "Ok"
    /\ Len(op.keys) = 2
    /\ op.keys[1] # op.keys[2]
    /\ MapLen(output[1].keys) = MapLen(input[1].keys) + 2
    /\ input[1].atoms_count >= 1

\* [A[b] for b in B]
ComposedIndices(a, b) == [k \in 1..Len(b) |-> a[b[k] + 1]]

(* C14: for a store S, a list A of rows of S and a list B of rows of       *)
(* copy_snapshot_with_indices(S, A), the store                             *)
(* copy_snapshot_with_indices(copy_snapshot_with_indices(S, A), B) is the  *)
(* store copy_snapshot_with_indices(S, [A[b] for b in B]): row k holds,    *)
(* for every property, the value of S at row A[B[k]].                      *)
SubsetOfSubsetComposes ==
    ( /\ op.name = "copy_snapshot_with_indices twice"
      /\ IndicesInto(input[1], op.a)
      /\ \A k \in 1..Len(op.b) : op.b[k] < Len(op.a) ) =>
      /\ outcome = "Ok"
      /\ output[1] =
            copy_snapshot_with_indices(input[1], ComposedIndices(op.a, op.b)).snapshot
      /\ output[1].atoms_count = Len(op.b)
      /\ \A k \in 1..Len(op.b), p \in DOMAIN input[1].keys :
            output[1].atoms[input[1].keys[p] * Len(op.b) + k] =
              input[1].atoms[input[1].keys[p] * input[1].atoms_count
                             + op.a[op.b[k] + 1] + 1]

\* Both lists reorder: the second row of the first subset, which is the
\* first row of the store, came first.
SubsetOfSubsetWitness ==
    /\ op.name = "copy_snapshot_with_indices twice"
    /\ outcome = "Ok"
    /\ op.a = <<1, 0>>
    /\ op.b = <<1, 0>>
    /\ output[1].atoms = input[1].atoms
    /\ input[1].atoms_count = 2

----------------------------------------------------------------------------
(* DumpFile::new, DumpFile::save and DumpSnapshot::write: the text of a    *)
(* dump, one sequence of characters per line.                              *)

RECURSIVE Zeros(_)
Zeros(n) == IF n <= 0 THEN <<>> ELSE <<"0">> \o Zeros(n - 1)

\* "{}" of a float that drops the zeros between the point and the digits.
FormatFloatUnpadded(v) ==
    LET digits == FormatNat(v.mant)
        cut    == IF Len(digits) > v.exp THEN Len(digits) - v.exp ELSE 0
    IN  (IF v.neg THEN <<"-">> ELSE <<>>)
        \o (IF cut = 0 THEN <<"0">> ELSE SubSeq(digits, 1, cut))
        \o (IF v.exp > 0 THEN <<".">> \o SubSeq(digits, cut + 1, Len(digits))
            ELSE <<>>)

\* "{}" of an f32 or f64: the sign, the integer digits and, when there is a
\* fraction, '.' and the fraction digits; never an exponent.
FormatFloat(v) ==
    LET digits == FormatNat(v.mant)
        padded == Zeros(v.exp + 1 - Len(digits)) \o digits
        cut    == Len(padded) - v.exp
    IN  (IF v.neg THEN <<"-">> ELSE <<>>)
        \o SubSeq(padded, 1, cut)
        \o (IF v.exp > 0 THEN <<".">> \o SubSeq(padded, cut + 1, Len(padded))
            ELSE <<>>)

\* self.get_keys().join(" ")
RECURSIVE JoinKeys(_)
JoinKeys(names) ==
    IF names = <<>> THEN <<>>
    ELSE IF Len(names) = 1 THEN names[1]
    ELSE names[1] \o <<" ">> \o JoinKeys(Tail(names))

\* One data row: atoms[i], then " {}" of get_atom_value(j, i) for j in 1..keys.len().
WriteRow(s, i) ==
    FormatFloat(s.atoms[i + 1])
    \o Flatten([j \in 1..(MapLen(s.keys) - 1) |->
                  <<" ">> \o FormatFloat(get_atom_value(s, j, i))])

\* DumpSnapshot::write: the lines of one block, for every order get_keys
\* can return the names in.
DumpSnapshot_write(s) ==
    {<<HEADER_TIMESTEP,
       FormatNat(s.step),
       HEADER_NUM_OF_ATOMS,
       FormatNat(s.atoms_count),
       HEADER_SYM_BOX \o <<" ">> \o s.sym_box.boundaries>>
     \o [a \in 1..3 |-> FormatFloat(s.sym_box.bbox.lower[a]) \o <<" ">>
                         \o FormatFloat(s.sym_box.bbox.upper[a])]
     \o <<HEADER_ATOMS \o <<" ">> \o JoinKeys(keys)>>
     \o [i \in 1..s.atoms_count |-> WriteRow(s, i - 1)] : keys \in get_keys(s)}

\* DumpFile::new: snapshots_map.entry(snapshot.step).insert_entry(snapshot)
RECURSIVE DumpFile_new(_)
DumpFile_new(snapshots) ==
    IF snapshots = <<>> THEN EmptyMap
    ELSE LET rest == DumpFile_new(SubSeq(snapshots, 1, Len(snapshots) - 1))
             last == snapshots[Len(snapshots)]
         IN  MapInsert(rest, last.step, last)

\* get_snapshots: the stores sorted by their timestep.
RECURSIVE get_snapshots(_)
get_snapshots(snapshots) ==
    IF DOMAIN snapshots = {} THEN <<>>
    ELSE LET t == CHOOSE t \in DOMAIN snapshots : \A o \in DOMAIN snapshots : t <= o
         IN  <<snapshots[t]>>
             \o get_snapshots([o \in DOMAIN snapshots \ {t} |-> snapshots[o]])

\* The texts of the stores ordered[k..], each written in turn.
RECURSIVE SaveFrom(_, _)
SaveFrom(ordered, k) ==
    IF k > Len(ordered) THEN {<<>>}
    ELSE {block \o rest : block \in DumpSnapshot_write(ordered[k]),
                          rest \in SaveFrom(ordered, k + 1)}

\* DumpFile::save: every store of get_snapshots written in turn; the set of
\* the texts it can write.
save(snapshots) == SaveFrom(get_snapshots(snapshots), 1)

----------------------------------------------------------------------------
(* Saving a DumpFile and reading the text back with an empty request.      *)

\* Column k (from 1), row i (from 0): 0.01.., -2.1.., then whole numbers.
RoundTripValue(k, i) ==
    IF k = 1 THEN [neg |-> FALSE, mant |-> i + 1, exp |-> 2]
    ELSE IF k = 2 THEN [neg |-> TRUE, mant |-> 21 + i, exp |-> 1]
    ELSE Number(10 * k + i)

RoundTripBox ==
    [boundaries |-> BoxTag,
     bbox |-> BoundingBox3_new(
                  [a \in 1..3 |-> [neg |-> TRUE, mant |-> 5, exp |-> 1]],
                  [a \in 1..3 |-> [neg |-> FALSE, mant |-> 1025, exp |-> 2]])]

RECURSIVE RoundTripRows(_, _)
RoundTripRows(s, i) ==
    IF i >= s.atoms_count THEN s
    ELSE RoundTripRows(
             SetRow(s, i, [k \in 1..MapLen(s.keys) |-> RoundTripValue(k, i)], 0),
             i + 1)

RoundTripSchemas == <<(<<KeyId, KeyX, KeyY, KeyZ>>), (<<KeyX>>), (<<KeyX, KeyId>>)>>

\* The k-th store handed to DumpFile::new: schemas and row counts rotate.
RoundTripStore(k, step, n0, s0) ==
    RoundTripRows(
        DumpSnapshot_new(
            ReadKeys(RoundTripSchemas[((s0 + k) % Len(RoundTripSchemas)) + 1],
                     EmptyMap)[1],
            step, (n0 + k) % (MaxRows + 1), RoundTripBox),
        0)

\* The timesteps of the stores handed to DumpFile::new, in the order given.
RoundTripSteps == {<<>>, <<100>>, <<200, 100>>, <<100, 100>>, <<300, 100, 200>>}

RoundTripDumps ==
    { DumpFile_new([k \in 1..Len(steps) |-> RoundTripStore(k, steps[k], n0, s0)]) :
        steps \in RoundTripSteps, n0 \in 0..MaxRows,
        s0 \in 0..(Len(RoundTripSchemas) - 1) }

InitRoundTrip ==
    /\ input \in {Some(d) : d \in RoundTripDumps}
    /\ op = [name |-> "save"]
    /\ outcome = "None"
    /\ output = None
    /\ file \in save(input[1])
    /\ timesteps = <<>>
    /\ pos = 0
    /\ pc = "timestep"
    /\ timestep = 0
    /\ number_of_atoms = 0
    /\ sym_box = None
    /\ snapshot = None
    /\ row = 0
    /\ dump = EmptyMap
    /\ result = "Running"

\* The DumpFile that read returned is saved in turn.
SaveAgain ==
    /\ pc = "done"
    /\ result = "Ok"
    /\ outcome = "None"
    /\ op' = [name |-> "save again"]
    /\ outcome' = "Ok"
    /\ output' \in {Some(text) : text \in save(dump)}
    /\ UNCHANGED input
    /\ UNCHANGED readVars

NextRoundTrip ==
    \/ ReadTimestep
    \/ ReadNumberOfAtoms
    \/ ReadSymBox
    \/ ReadAtomKeys
    \/ ReadAtomRow
    \/ InsertSnapshot
    \/ SaveAgain

SpecRoundTrip == InitRoundTrip /\ [][NextRoundTrip]_vars

(* C15: for a DumpFile whose stores have one or more properties and zero   *)
(* or more atoms, save followed by read with an empty request returns the  *)
(* stores with the same timesteps, atom counts, boundary tags, property    *)
(* keys at the same columns and the same values; saving that result gives  *)
(* the same text, and save writes the blocks in ascending timestep order.  *)
SaveReadRoundTrip ==
    /\ WellFormedFrom(0)
    /\ StepsIncreasing
    /\ Len(BlockStarts) = Cardinality(DOMAIN input[1])
    /\ pc = "done" => (result = "Ok" /\ dump = input[1])
    /\ outcome = "Ok" => output[1] = file

\* A file of two blocks, written in the other order than the stores were
\* given, was read back and saved again.
SaveReadWitness ==
    /\ outcome = "Ok"
    /\ Cardinality(DOMAIN dump) >= 2
    /\ \E t \in DOMAIN dump : dump[t].atoms_count >= 2 /\ MapLen(dump[t].keys) >= 2
    /\ \E t \in DOMAIN dump : dump[t].atoms_count = 0

----------------------------------------------------------------------------
(* Clusterizer::clusterize.  The point of a row holds its three f64        *)
(* values and the cutoff is an f64: the kd-tree computes the distances in  *)
(* f64.  XYZ::check_cutoff computes in f32.  The inputs keep every pair of *)
(* rows away from a distance equal to the cutoff.                          *)

\* v * 10^e as an integer, for e >= v.exp.
Scaled(v, e) == (IF v.neg THEN -1 ELSE 1) * v.mant * Pow10(e - v.exp)

\* The exponent all coordinates and the radius are scaled to.
CommonExp(a, b, radius) ==
    SetMax({a[k].exp : k \in 1..3} \cup {b[k].exp : k \in 1..3} \cup {radius.exp})

\* The squared distance of a and b, in units of 10^-2e.
Dist2(a, b, e) ==
    (Scaled(a[1], e) - Scaled(b[1], e)) * (Scaled(a[1], e) - Scaled(b[1], e))
    + (Scaled(a[2], e) - Scaled(b[2], e)) * (Scaled(a[2], e) - Scaled(b[2], e))
    + (Scaled(a[3], e) - Scaled(b[3], e)) * (Scaled(a[3], e) - Scaled(b[3], e))

\* XYZ::from([x as f32, y as f32, z as f32]): the point of three f64
\* values as f32 coordinates.
XYZ_from(p) == <<AsF32(p[1]), AsF32(p[2]), AsF32(p[3])>>

\* (a - b) * (a - b)
SquaredDifference(a, b) ==
    CHOOSE r \in {F32Mul(d, d) : d \in {F32Sub(a, b)}} : TRUE

\* distance_squared of two f32 points: the squares of the coordinate
\* differences, summed in coordinate order.
distance_squared(a, b) ==
    CHOOSE r \in {F32Add(F32Add(sq[1], sq[2]), sq[3]) :
                    sq \in {[i \in 1..3 |-> SquaredDifference(a[i], b[i])]}} : TRUE

\* XYZ::check_cutoff: a.distance_squared(*b) <= cutoff * cutoff
check_cutoff(a, b, cutoff) ==
    F32Leq(distance_squared(a, b), F32Mul(cutoff, cutoff))

\* check_cutoff on two rows' coordinates and a cutoff, each cast to f32
DistanceWithin(a, b, radius) ==
    \E x \in {XYZ_from(a)} : \E y \in {XYZ_from(b)} : \E cutoff \in {AsF32(radius)} :
       check_cutoff(x, y, cutoff)

\* get_atom_xyz: XYZ::from([x, y, z]) of row atom_i, the three f64 values.
get_atom_xyz(c, atom_i) ==
    <<get_atom_value(c.snapshot, c.x_j, atom_i),
      get_atom_value(c.snapshot, c.y_j, atom_i),
      get_atom_value(c.snapshot, c.z_j, atom_i)>>

\* atoms: the XYZ of every row, row i at position i + 1.
ClusterAtoms(c) == [k \in 1..c.snapshot.atoms_count |-> get_atom_xyz(c, k - 1)]

\* atoms_map[xyz]: entry(xyz).insert_entry(i) in row order keeps, for equal
\* XYZ values, the last row.
atoms_map(atoms, xyz) == SetMax({i \in 0..(Len(atoms) - 1) : atoms[i + 1] = xyz})

\* The coordinates of a point, as the values the arithmetic works on.
F64Point(p) == [k \in 1..3 |-> AsF64(p[k])]

\* (a - b) * (a - b) in f64
F64SquaredDifference(a, b) ==
    CHOOSE r \in {F64Mul(d, d) : d \in {F64Sub(a, b)}} : TRUE

\* The squares of the coordinate differences of two points, summed in
\* coordinate order.
F64SquaredDistance(a, b) ==
    CHOOSE r \in {F64Add(F64Add(sq[1], sq[2]), sq[3]) :
                    sq \in {[k \in 1..3 |-> F64SquaredDifference(x[k], y[k])] :
                              x \in {a}, y \in {b}}} : TRUE

\* cutoff * cutoff in f64
F64Square(cutoff) == CHOOSE r \in {F64Mul(x, x) : x \in {AsF64(cutoff)}} : TRUE

\* kdtree.within_radius(atom, cutoff): the indexed points within the cutoff.
within_radius(atoms, atom, cutoff) ==
    CHOOSE near \in {{k \in 0..(Len(points) - 1) :
                        F64Leq(F64SquaredDistance(points[k + 1], query), square)} :
                       points \in {[k \in 1..Len(atoms) |-> F64Point(atoms[k])]},
                       query \in {F64Point(atom)}, square \in {F64Square(cutoff)}} : TRUE

RECURSIVE SetToSeq(_)
SetToSeq(S) ==
    IF S = {} THEN <<>>
    ELSE LET m == CHOOSE m \in S : \A o \in S : m <= o
         IN  <<m>> \o SetToSeq(S \ {m})

\* The rows the neighbours of atom resolve to: atoms_map[xyz] of each.
Neighbours(atoms, atom, cutoff) ==
    {atoms_map(atoms, atoms[k + 1]) : k \in within_radius(atoms, atom, cutoff)}

\* while let Some((current_i, atom)) = stack.pop() { ... }
RECURSIVE Drain(_, _, _, _, _)
Drain(stack, visited, current_cluster, atoms, cutoff) ==
    IF stack = <<>> THEN [visited |-> visited, cluster |-> current_cluster]
    ELSE LET current_i == stack[Len(stack)]
             fresh     == Neighbours(atoms, atoms[current_i + 1], cutoff) \ visited
         IN  Drain(SubSeq(stack, 1, Len(stack) - 1) \o SetToSeq(fresh),
                   visited \cup fresh,
                   current_cluster \cup {current_i},
                   atoms, cutoff)

\* atoms.iter().enumerate().for_each: every unvisited row seeds a cluster.
RECURSIVE SeedsFrom(_, _, _, _, _)
SeedsFrom(i, visited, clusters, atoms, cutoff) ==
    IF i >= Len(atoms) THEN clusters
    ELSE IF i \in visited THEN SeedsFrom(i + 1, visited, clusters, atoms, cutoff)
    ELSE LET r == Drain(<<i>>, visited \cup {i}, {}, atoms, cutoff)
         IN  SeedsFrom(i + 1, r.visited, clusters \cup {r.cluster}, atoms, cutoff)

\* The clusters found, as a set of sets of rows.
ClustersOf(c) ==
    CHOOSE clusters \in {SeedsFrom(0, {}, {}, atoms, cutoff) :
                           atoms \in {ClusterAtoms(c)}, cutoff \in {c.cutoff}} : TRUE

\* clusters.iter().find(|(_, cluster)| cluster.contains(&atom_i)): the key
\* of the cluster that holds atom_i; key maps each cluster to its key.
ClusterKeyOf(clusters, key, atom_i) ==
    key[CHOOSE cl \in clusters : atom_i \in cl]

\* (0..atoms_count).for_each: cluster[atom_i] = id[cluster_i]
RECURSIVE LabelFrom(_, _, _, _)
LabelFrom(s, clusters, key, atom_i) ==
    IF atom_i >= s.atoms_count THEN s
    ELSE LabelFrom(set_atom_value(s, s.keys[KeyCluster], atom_i,
                       get_atom_value(s, s.keys[KeyId],
                                      ClusterKeyOf(clusters, key, atom_i))),
                   clusters, key, atom_i + 1)

\* The keys a cluster can get: *current_cluster.iter().take(1).next(), the
\* first element of a HashSet in its iteration order, is any of its rows.
ClusterKeys(clusters) ==
    {key \in [clusters -> UNION clusters \cup {0}] : \A cl \in clusters : key[cl] \in cl}

\* clusterize with the choice of keys made: [panic, dump].
clusterize(c, key) ==
    IF \/ \E atom_i \in 0..(c.snapshot.atoms_count - 1) :
            \E j \in {c.x_j, c.y_j, c.z_j} : OutOfBounds(c.snapshot, j, atom_i)
       \/ KeyId \notin DOMAIN c.snapshot.keys
       \/ \E atom_i \in 0..(c.snapshot.atoms_count - 1) :
            \/ OutOfBounds(c.snapshot, c.snapshot.keys[KeyId], atom_i)
            \/ OutOfBounds(c.snapshot, c.snapshot.keys[KeyCluster], atom_i)
    THEN [panic |-> TRUE, dump |-> EmptyMap]
    ELSE CHOOSE r \in {[panic |-> FALSE,
                         dump  |-> DumpFile_new(<<LabelFrom(c.snapshot, clusters, key, 0)>>)] :
                          clusters \in {ClustersOf(c)}} : TRUE

----------------------------------------------------------------------------
(* get_crater_info: the largest cluster of a labelled store, the number of *)
(* its rows and of its rows near the surface, and their mean and lowest    *)
(* depth under the zero level, in f64.                                     *)

\* The rows of s.
RowsOf(s) == 0..(s.atoms_count - 1)

\* get_zero_lvl: the largest z; None stands for -inf (no rows).  It reads
\* get_property("z") and panics with it.
get_zero_lvl(s) ==
    IF s.atoms_count = 0 THEN None
    ELSE Some(CHOOSE z \in {get_atom_value(s, s.keys[KeyZ], i) : i \in RowsOf(s)} :
                \A i \in RowsOf(s) :
                  F64Leq(AsF64(get_atom_value(s, s.keys[KeyZ], i)), AsF64(z)))

\* `cluster as u64`: the integer part, 0 for a negative value.
AsU64(v) == IF v.neg THEN 0 ELSE v.mant \div Pow10(v.exp)

\* cluster_cnt: the number of rows of every label.
cluster_cnt(labels) ==
    [id \in {AsU64(labels[k]) : k \in 1..Len(labels)} |->
       Cardinality({k \in 1..Len(labels) : AsU64(labels[k]) = id})]

\* The fold over cluster_cnt.iter(), from (0, u64::MIN): a label replaces
\* the running maximum only when its count is greater.
RECURSIVE FoldMax(_, _, _, _, _)
FoldMax(order, cnt, k, cluster_max, max_cnt) ==
    IF k > Len(order) THEN cluster_max
    ELSE IF cnt[order[k]] > max_cnt
         THEN FoldMax(order, cnt, k + 1, order[k], cnt[order[k]])
         ELSE FoldMax(order, cnt, k + 1, cluster_max, max_cnt)

\* The orders a HashMap can iterate its keys in.
Orders(S) ==
    {o \in [1..Cardinality(S) -> S] : \A a, b \in 1..Cardinality(S) : o[a] = o[b] => a = b}

\* -2.4 * 0.707 + zero_lvl
SurfaceLevel(zero_lvl) ==
    F64Add(F64Mul(AsF64([neg |-> TRUE, mant |-> 24, exp |-> 1]),
                  AsF64([neg |-> FALSE, mant |-> 707, exp |-> 3])),
           zero_lvl)

\* z_min.min(depth), from f64::INFINITY, which None stands for.
F64Min(z_min, depth) ==
    IF z_min = None THEN Some(depth)
    ELSE IF F64Lt(depth, z_min[1]) THEN Some(depth)
    ELSE z_min

\* for i in 0..snapshot.atoms_count { ... }: the counts, the sum and the
\* minimum over the rows of cluster_max, in row order.
RECURSIVE CraterRows(_, _, _, _, _, _)
CraterRows(cluster, z, zero_lvl, cluster_max, i, acc) ==
    IF i > Len(cluster) THEN acc
    ELSE IF AsU64(cluster[i]) # cluster_max
         THEN CraterRows(cluster, z, zero_lvl, cluster_max, i + 1, acc)
    ELSE CraterRows(cluster, z, zero_lvl, cluster_max, i + 1,
           CHOOSE next \in
             {[surface_count |-> IF F64Lt(SurfaceLevel(zero_lvl), z_i)
                                 THEN acc.surface_count + 1
                                 ELSE acc.surface_count,
               crater_count  |-> acc.crater_count + 1,
               z_min         |-> F64Min(acc.z_min, depth),
               z_avg         |-> F64Add(acc.z_avg, depth)] :
                z_i \in {AsF64(z[i])},
                depth \in {F64Sub(AsF64(z[i]), zero_lvl)}} : TRUE)

\* get_property("cluster") and get_property("z") panic on a snapshot
\* without the column.
get_crater_infoPanics(s) ==
    get_propertyPanics(s, KeyCluster) \/ get_propertyPanics(s, KeyZ)

\* get_crater_info for one iteration order of cluster_cnt: the five values
\* format! writes, crater_count, volume, surface, z_avg and z_min, and
\* cluster_max.  zero_lvl is Some(level), or None for -inf, the level of a
\* snapshot without rows.  z_avg is None for NaN (0.0 / 0 without rows of
\* cluster_max) and z_min is None for inf.  The values are kept as f64;
\* their rendering as decimal text is not modelled.
get_crater_info(s, zero_lvl, order) ==
    IF get_crater_infoPanics(s)
    THEN [panic |-> TRUE, cluster_max |-> 0, crater_count |-> 0, volume |-> F64Zero,
          surface |-> F64Zero, z_avg |-> None, z_min |-> None]
    ELSE CHOOSE info \in
      {[panic        |-> FALSE,
        cluster_max  |-> cluster_max,
        crater_count |-> sums.crater_count,
        volume       |-> F64Mul(AsF64(Number(sums.crater_count)),
                                AsF64([neg |-> FALSE, mant |-> 201, exp |-> 1])),
        surface      |-> F64Mul(AsF64(Number(sums.surface_count)),
                                AsF64([neg |-> FALSE, mant |-> 73712, exp |-> 4])),
        z_avg        |-> IF sums.crater_count = 0 THEN None
                         ELSE Some(F64Div(sums.z_avg, AsF64(Number(sums.crater_count)))),
        z_min        |-> sums.z_min] :
         cluster_max \in {FoldMax(order, cluster_cnt(get_property(s, KeyCluster)), 1, 0, 0)},
         sums \in {CraterRows(get_property(s, KeyCluster), get_property(s, KeyZ),
                              IF zero_lvl = None THEN F64Zero ELSE AsF64(zero_lvl[1]),
                              FoldMax(order, cluster_cnt(get_property(s, KeyCluster)), 1, 0, 0),
                              1,
                              [surface_count |-> 0, crater_count |-> 0,
                               z_min |-> None, z_avg |-> F64Zero])}} : TRUE

----------------------------------------------------------------------------
(* The stores clusterize is called on: rows of an id and a point.          *)

MaxClusterRows == 3

Half == [neg |-> FALSE, mant |-> 5, exp |-> 1]

Point(x, y, z) == <<x, y, z>>

\* Points on a line, at distances 0, 1, 2, 3, 4 and 5 from each other.
LinePoints ==
    {Point(Zero, Zero, Zero), Point(Number(1), Zero, Zero),
     Point(Number(2), Zero, Zero), Point(Number(5), Zero, Zero)}

\* (0,0,0), (1.6,0,0), (0.8,1.3856,0)
Triangle ==
    <<Point(Zero, Zero, Zero),
      Point([neg |-> FALSE, mant |-> 16, exp |-> 1], Zero, Zero),
      Point([neg |-> FALSE, mant |-> 8, exp |-> 1],
            [neg |-> FALSE, mant |-> 13856, exp |-> 4], Zero)>>

ClusterGeometries ==
    UNION {[1..m -> LinePoints] : m \in 0..MaxClusterRows} \cup {Triangle}

ClusterSchemas == {<<KeyId, KeyX, KeyY, KeyZ>>, <<KeyX, KeyY, KeyZ, KeyId>>}

\* Row i (from 0) of n rows has the id 10 * (n - i): the ids are pairwise
\* distinct and decrease with the row.
RECURSIVE ClusterRows(_, _, _)
ClusterRows(s, points, i) ==
    IF i >= s.atoms_count THEN s
    ELSE LET id == Number(10 * (s.atoms_count - i))
             a  == set_atom_value(s, s.keys[KeyId], i, id)
             b  == set_atom_value(a, s.keys[KeyX], i, points[i + 1][1])
             c  == set_atom_value(b, s.keys[KeyY], i, points[i + 1][2])
             d  == set_atom_value(c, s.keys[KeyZ], i, points[i + 1][3])
         IN  ClusterRows(d, points, i + 1)

ClusterStore(schema, points) ==
    ClusterRows(DumpSnapshot_new(ReadKeys(schema, EmptyMap)[1], 100, Len(points),
                                 InputBox),
                points, 0)

ClusterStores ==
    {ClusterStore(schema, points) : schema \in ClusterSchemas,
                                    points \in ClusterGeometries}

\* The point of row i of a store with x, y and z.
PointOf(s, i) ==
    <<get_atom_value(s, s.keys[KeyX], i), get_atom_value(s, s.keys[KeyY], i),
      get_atom_value(s, s.keys[KeyZ], i)>>

\* Two different rows lie at the cutoff from each other: their squared
\* distance is the square of the cutoff.
AtCutoff(s, cutoff) ==
    \E square \in {F64Square(cutoff)} :
      \E points \in {[i \in 0..(s.atoms_count - 1) |-> F64Point(PointOf(s, i))]} :
        \E i, j \in 0..(s.atoms_count - 1) :
          i # j /\ F64SquaredDistance(points[i], points[j]) = square

ClusterCutoffs ==
    {Zero, Half, [neg |-> FALSE, mant |-> 15, exp |-> 1],
     [neg |-> FALSE, mant |-> 17, exp |-> 1]}

InitCluster ==
    /\ input \in {Some(s) : s \in ClusterStores}
    /\ op = [name |-> "none"]
    /\ outcome = "None"
    /\ output = None
    /\ file = <<>>
    /\ timesteps = <<>>
    /\ pos = 0
    /\ pc = "done"
    /\ timestep = 0
    /\ number_of_atoms = 0
    /\ sym_box = None
    /\ snapshot = None
    /\ row = 0
    /\ dump = EmptyMap
    /\ result = "Running"

\* Clusterizer::new(&snapshot, cutoff).clusterize()
Clusterize ==
    /\ outcome = "None"
    /\ \E cutoff \in ClusterCutoffs :
         /\ ~AtCutoff(input[1], cutoff)
         /\ \E c \in {Clusterizer_new(input[1], cutoff)} :
              /\ ~c.panic
              /\ \E key \in ClusterKeys(ClustersOf(c)) :
                   \E r \in {clusterize(c, key)} :
                     /\ ~r.panic
                     /\ output' = Some(r.dump)
         /\ op' = [name |-> "clusterize", cutoff |-> cutoff]
    /\ outcome' = "Ok"
    /\ UNCHANGED input
    /\ UNCHANGED readVars

\* get_crater_info(dump.get_snapshots()[0], zero_lvl) on the labelled
\* store, with the zero level of the store that was clusterized.
GetCraterInfo ==
    /\ outcome = "Ok"
    /\ op.name = "clusterize"
    /\ \E s \in {get_snapshots(output[1])[1]} :
       \E order \in Orders(DOMAIN cluster_cnt(get_property(s, KeyCluster))) :
       \E info \in {get_crater_info(s, get_zero_lvl(input[1]), order)} :
         /\ op' = [name |-> "get_crater_info", cutoff |-> op.cutoff, info |-> info]
         /\ outcome' = IF info.panic THEN "Panic" ELSE "Done"
    /\ UNCHANGED <<input, output>>
    /\ UNCHANGED readVars

\* get_crater_info on the store before it is clusterized: it has no
\* 'cluster' column.
GetCraterInfoUnlabelled ==
    /\ outcome = "None"
    /\ \E info \in {get_crater_info(input[1], get_zero_lvl(input[1]), <<>>)} :
         /\ op' = [name |-> "get_crater_info", cutoff |-> Zero, info |-> info]
         /\ outcome' = IF info.panic THEN "Panic" ELSE "Done"
    /\ UNCHANGED <<input, output>>
    /\ UNCHANGED readVars

\* The sets of rows that share a 'cluster' value in a labelled store.
SharedLabelSets(s) ==
    {{j \in 0..(s.atoms_count - 1) :
        get_atom_value(s, s.keys[KeyCluster], j) = get_atom_value(s, s.keys[KeyCluster], i)} :
       i \in 0..(s.atoms_count - 1)}

\* c1 <= c2
CutoffLeq(c1, c2) ==
    Scaled(c1, SetMax({c1.exp, c2.exp})) <= Scaled(c2, SetMax({c1.exp, c2.exp}))

\* Clusterizer::new(&snapshot, c).clusterize() for two cutoffs c1 <= c2 on
\* the same snapshot; the rows that share a label are recorded for each.
ClusterizeTwice ==
    /\ outcome = "None"
    /\ \E c1 \in ClusterCutoffs, c2 \in ClusterCutoffs :
         /\ CutoffLeq(c1, c2)
         /\ ~AtCutoff(input[1], c1)
         /\ ~AtCutoff(input[1], c2)
         /\ \E a \in {Clusterizer_new(input[1], c1)}, b \in {Clusterizer_new(input[1], c2)} :
              /\ ~a.panic
              /\ ~b.panic
              /\ \E ka \in ClusterKeys(ClustersOf(a)), kb \in ClusterKeys(ClustersOf(b)) :
                   \E first \in {clusterize(a, ka)}, second \in {clusterize(b, kb)} :
                     /\ ~first.panic
                     /\ ~second.panic
                     /\ op' = [name |-> "clusterize twice", c1 |-> c1, c2 |-> c2,
                               first  |-> SharedLabelSets(get_snapshots(first.dump)[1]),
                               second |-> SharedLabelSets(get_snapshots(second.dump)[1])]
    /\ outcome' = "Twice"
    /\ output' = None
    /\ UNCHANGED input
    /\ UNCHANGED readVars

NextCluster ==
    \/ ClusterizeTwice
    \/ Clusterize
    \/ GetCraterInfo
    \/ GetCraterInfoUnlabelled

SpecCluster == InitCluster /\ [][NextCluster]_vars

\* The labelled store and its labels.
Labelled == get_snapshots(output[1])[1]

Labels == get_property(Labelled, KeyCluster)

\* The rows reachable from the rows of `rows` by steps of at most the cutoff.
RECURSIVE Reach(_, _, _)
Reach(rows, s, cutoff) ==
    LET next == rows \cup {j \in 0..(s.atoms_count - 1) :
                             \E i \in rows :
                               DistanceWithin(PointOf(s, i), PointOf(s, j), cutoff)}
    IN  IF next = rows THEN rows ELSE Reach(next, s, cutoff)

(* C16: for a snapshot with pairwise distinct ids (rows may share their    *)
(* coordinates) and a cutoff >= 0, after clusterize every row has a        *)
(* cluster value and two rows have equal cluster values if and only if a   *)
(* chain of rows, each within the cutoff of the next, connects them.       *)
LabelsAreComponents ==
    output # None =>
      /\ Len(Labels) = input[1].atoms_count
      /\ \A i, j \in 0..(input[1].atoms_count - 1) :
            (Labels[i + 1] = Labels[j + 1]) <=> (j \in Reach({i}, input[1], op.cutoff))

(* C17: after clusterize the cluster value of a row is the id of the       *)
(* lowest-index row of its cluster, the seed that discovered it.           *)
LabelIsSeedId ==
    output # None =>
      \A i \in 0..(input[1].atoms_count - 1) :
        Labels[i + 1] =
          get_atom_value(Labelled, Labelled.keys[KeyId],
                         CHOOSE m \in 0..i : /\ Labels[m + 1] = Labels[i + 1]
                                             /\ \A o \in 0..(m - 1) :
                                                   Labels[o + 1] # Labels[i + 1])

(* C18: the largest cluster selected from a labelling is the label with    *)
(* the greatest number of rows and, among labels of that greatest number,  *)
(* the smallest; the same labelling always gives the same selection.       *)
LargestClusterIsSmallestOfGreatest ==
    (op.name = "get_crater_info" /\ outcome = "Done" /\ input[1].atoms_count > 0) =>
      LET cnt == cluster_cnt(Labels)
      IN  /\ op.info.cluster_max \in DOMAIN cnt
          /\ \A id \in DOMAIN cnt :
                \/ cnt[id] < cnt[op.info.cluster_max]
                \/ cnt[id] = cnt[op.info.cluster_max] /\ op.info.cluster_max <= id

----------------------------------------------------------------------------
(* Crater candidate detection (crater-analysis): Stripes::new,             *)
(* Stripes::get_missing_indices and get_crater_candidate_indecies.  The    *)
(* depths, the width, the zero level and the coordinates are f64.  A call  *)
(* ends as "Ok", as "Panic" (an assert!, an absent column, an index out of *)
(* range) or as "Abort" (the process ends while it allocates).             *)

\* max_depth / width is +inf: `as usize` makes it usize::MAX, and the fold
\* that pushes one Vec per stripe ends the process before it returns.
StripeCountIsMax(max_depth, width) == width.mant = 0 /\ max_depth.mant # 0

\* (max_depth / width).ceil() as usize for max_depth, width >= 0 and a
\* finite quotient; 0.0 / 0.0 is NaN, which `as usize` makes 0.
StripeCount(max_depth, width) ==
    IF width.mant = 0 THEN 0
    ELSE F64Ceil(F64Div(AsF64(max_depth), AsF64(width)))

\* zero_lvl - max_depth < z && z <= zero_lvl
InDepth(s, i, zero_lvl, max_depth) ==
    /\ zero_lvl # None
    /\ \E z \in {AsF64(get_atom_value(s, s.keys[KeyZ], i))} :
       \E level \in {AsF64(zero_lvl[1])} :
         /\ F64Lt(F64Sub(level, AsF64(max_depth)), z)
         /\ F64Leq(z, level)

\* ((zero_lvl - z) / width).floor() as usize
StripeOf(s, i, zero_lvl, width) ==
    F64Floor(F64Div(F64Sub(AsF64(zero_lvl[1]), AsF64(get_atom_value(s, s.keys[KeyZ], i))),
                    AsF64(width)))

\* assert!(max_depth >= 0.0); assert!(width >= 0.0); and the three
\* get_property calls, which panic on a snapshot without x, y or z.
Stripes_newPanics(snap, max_depth, width) ==
    \/ ~NonNegative(max_depth)
    \/ ~NonNegative(width)
    \/ \E key \in {KeyX, KeyY, KeyZ} : get_propertyPanics(snap, key)

\* Stripes::new: [panic, abort, indices, sym_box, snap].  Stripe j lists,
\* in row order, the rows of depth j; indices[j].push(i) panics for a row
\* whose j is not below the count.
Stripes_new(snap, zero_lvl, max_depth, width) ==
    IF Stripes_newPanics(snap, max_depth, width)
    THEN [panic |-> TRUE, abort |-> FALSE, indices |-> <<>>,
          sym_box |-> snap.sym_box, snap |-> snap]
    ELSE IF StripeCountIsMax(max_depth, width)
    THEN [panic |-> FALSE, abort |-> TRUE, indices |-> <<>>,
          sym_box |-> snap.sym_box, snap |-> snap]
    ELSE CHOOSE stripes \in
      {[panic   |-> \E i \in RowsOf(snap) : depth[i] >= count,
        abort   |-> FALSE,
        indices |-> [j \in 0..(count - 1) |->
                       SetToSeq({i \in RowsOf(snap) : depth[i] = j})],
        sym_box |-> snap.sym_box,
        snap    |-> snap] :
         count \in {StripeCount(max_depth, width)},
         depth \in {[i \in RowsOf(snap) |->
                       IF InDepth(snap, i, zero_lvl, max_depth)
                       THEN StripeOf(snap, i, zero_lvl, width)
                       ELSE -1]}} : TRUE

\* Stripes::len
Stripes_len(stripes) == Cardinality(DOMAIN stripes.indices)

\* The squared distance is below the square of the cutoff.
CheckCutoffBelow(a, b, cutoff) ==
    F64Lt(F64SquaredDistance(F64Point(a), F64Point(b)), F64Square(cutoff))

\* check_cutoff as it is called here, on f64 points with an f64 cutoff:
\* distance_squared <= cutoff * cutoff.
CheckCutoffF64(a, b, cutoff) ==
    F64Leq(F64SquaredDistance(F64Point(a), F64Point(b)), F64Square(cutoff))

\* sym_box.xlo + cutoff < x < sym_box.xhi - cutoff, and the same for y.
InsideMargin(stripes, self_i, cutoff) ==
    \E margin \in {AsF64(cutoff)} :
      \A a \in 1..2 :
        \E v \in {AsF64(PointOf(stripes.snap, self_i)[a])} :
          /\ F64Lt(F64Add(AsF64(stripes.sym_box.bbox.lower[a]), margin), v)
          /\ F64Lt(v, F64Sub(AsF64(stripes.sym_box.bbox.upper[a]), margin))

\* Stripes::get_missing_indices: the rows of stripe i, inside the margin,
\* with no row of the other snapshot's stripe i within the cutoff.
get_missing_indices(stripes, other, i, cutoff) ==
    LET Missing(self_i) ==
          /\ InsideMargin(stripes, self_i, cutoff)
          /\ \A k \in 1..Len(other.indices[i]) :
                ~CheckCutoffF64(PointOf(stripes.snap, self_i),
                                PointOf(other.snap, other.indices[i][k]), cutoff)
    IN  SelectSeq(stripes.indices[i], Missing)

\* get_crater_candidate_indecies: [outcome, indices].  get_zero_lvl, then
\* Stripes::new on snap_input, then Stripes::new on snap_final, then the
\* missing indices of every stripe; the first step that fails ends the call.
get_crater_candidate_indecies(snap_input, snap_final, max_depth, cutoff, width) ==
    IF get_propertyPanics(snap_input, KeyZ)
    THEN [outcome |-> "Panic", indices |-> <<>>]
    ELSE CHOOSE r \in
      {IF stripes_input.panic THEN [outcome |-> "Panic", indices |-> <<>>]
       ELSE IF stripes_input.abort THEN [outcome |-> "Abort", indices |-> <<>>]
       ELSE IF stripes_final.panic THEN [outcome |-> "Panic", indices |-> <<>>]
       ELSE [outcome |-> "Ok",
             indices |-> Flatten([i \in 1..Stripes_len(stripes_input) |->
                                    get_missing_indices(stripes_input, stripes_final,
                                                        i - 1, cutoff)])] :
         stripes_input \in {Stripes_new(snap_input, get_zero_lvl(snap_input),
                                        max_depth, width)},
         stripes_final \in {Stripes_new(snap_final, get_zero_lvl(snap_input),
                                        max_depth, width)}} : TRUE

----------------------------------------------------------------------------
(* The snapshots candidate detection is called on, in the box [0, 10]^3.   *)

MaxCraterRows == 2

\* (5,5,5), (5,5,4.5), (5,5,4) and (0.5,5,5), the last one near the x face.
CraterPoints ==
    {Point(Number(5), Number(5), Number(5)),
     Point(Number(5), Number(5), [neg |-> FALSE, mant |-> 45, exp |-> 1]),
     Point(Number(5), Number(5), Number(4)),
     Point(Half, Number(5), Number(5))}

\* A snapshot of no rows whose columns are id, x and y: it has no z.
StoreWithoutZ ==
    DumpSnapshot_new(ReadKeys(<<KeyId, KeyX, KeyY>>, EmptyMap)[1], 100, 0, InputBox)

CraterStores ==
    {ClusterStore(<<KeyId, KeyX, KeyY, KeyZ>>, points) :
        points \in UNION {[1..m -> CraterPoints] : m \in 0..MaxCraterRows}}
    \cup {StoreWithoutZ}

\* -1, 0, 1 and 10
CraterDepths == {[neg |-> TRUE, mant |-> 1, exp |-> 0], Zero, Number(1), Number(10)}

\* 0, 1.5 and -1.5
CraterCutoffs ==
    {Zero, [neg |-> FALSE, mant |-> 15, exp |-> 1], [neg |-> TRUE, mant |-> 15, exp |-> 1]}

\* -1, 0, 1 and 2
CraterWidths == {[neg |-> TRUE, mant |-> 1, exp |-> 0], Zero, Number(1), Number(2)}

InitCrater ==
    /\ input \in {Some([reference |-> a, comparison |-> b]) :
                     a \in CraterStores, b \in CraterStores}
    /\ op = [name |-> "none"]
    /\ outcome = "None"
    /\ output = None
    /\ file = <<>>
    /\ timesteps = <<>>
    /\ pos = 0
    /\ pc = "done"
    /\ timestep = 0
    /\ number_of_atoms = 0
    /\ sym_box = None
    /\ snapshot = None
    /\ row = 0
    /\ dump = EmptyMap
    /\ result = "Running"

GetCraterCandidateIndecies ==
    /\ outcome = "None"
    /\ \E max_depth \in CraterDepths, cutoff \in CraterCutoffs, width \in CraterWidths :
         /\ op' = [name |-> "get_crater_candidate_indecies", max_depth |-> max_depth,
                   cutoff |-> cutoff, width |-> width]
         /\ \E r \in {get_crater_candidate_indecies(
                         input[1].reference, input[1].comparison,
                         max_depth, cutoff, width)} :
              /\ outcome' = r.outcome
              /\ output' = IF r.outcome = "Ok" THEN Some(r.indices) ELSE None
    /\ UNCHANGED input
    /\ UNCHANGED readVars

NextCrater == GetCraterCandidateIndecies

SpecCrater == InitCrater /\ [][NextCrater]_vars

\* The rows of the reference with no row of the comparison within d.
Unmatched(reference, comparison, d) ==
    {i \in RowsOf(reference) :
       \A j \in RowsOf(comparison) :
         ~DistanceWithin(PointOf(reference, i), PointOf(comparison, j), d)}

(* C19: candidate detection returns exactly the rows of the reference      *)
(* snapshot that have no atom of the comparison snapshot at distance <= d, *)
(* for every pair of snapshots and every d >= 0.                           *)
CandidatesAreUnmatchedRows ==
    ( /\ op.name = "get_crater_candidate_indecies"
      /\ NonNegative(op.cutoff)
      /\ outcome = "Ok" ) =>
      /\ {output[1][k] : k \in 1..Len(output[1])} =
            Unmatched(input[1].reference, input[1].comparison, op.cutoff)
      /\ Distinct(output[1])

\* The call is one Stripes::new refuses or cannot serve: a negative
\* max_depth or width, a width of 0 under a max_depth above 0, or a
\* reference without an x, y or z column.
RefusedByStripes ==
    \/ ~NonNegative(op.max_depth)
    \/ ~NonNegative(op.width)
    \/ op.width.mant = 0 /\ op.max_depth.mant # 0
    \/ \E key \in {KeyX, KeyY, KeyZ} : key \notin DOMAIN input[1].reference.keys

(* C20: when the reference and the comparison are the same snapshot and    *)
(* d >= 0, candidate detection returns an empty list: every atom finds     *)
(* itself within d.  The call returns for every max_depth >= 0 and width   *)
(* > 0 (and for both 0) on a snapshot with x, y and z, and fails otherwise.*)
SameSnapshotHasNoCandidates ==
    ( /\ op.name = "get_crater_candidate_indecies"
      /\ NonNegative(op.cutoff)
      /\ input[1].reference = input[1].comparison ) =>
      IF RefusedByStripes THEN outcome \in {"Panic", "Abort"} /\ output = None
      ELSE outcome = "Ok" /\ output = Some(<<>>)

\* d = 0 and two rows at different points, both within the depth and away
\* from the faces of the box: each row has only itself at distance 0.
SameSnapshotWitness ==
    /\ op.name = "get_crater_candidate_indecies"
    /\ input[1].reference = input[1].comparison
    /\ op.cutoff = Zero
    /\ op.max_depth = Number(10)
    /\ op.width = Number(1)
    /\ input[1].reference.atoms_count = 2
    /\ PointOf(input[1].reference, 0) # PointOf(input[1].reference, 1)
    /\ \A i \in 0..1 : PointOf(input[1].reference, i)[1] = Number(5)
    /\ outcome = "Ok"
    /\ output = Some(<<>>)

(* C21: for a snapshot and cutoffs 0 <= c1 <= c2, every set of rows that   *)
(* share a 'cluster' value after clusterize with c1 lies within one set of *)
(* rows that share a 'cluster' value after clusterize with c2.             *)
LargerCutoffNeverSplits ==
    op.name = "clusterize twice" =>
      \A small \in op.first : \E large \in op.second : small \subseteq large

(* C22: a negative clustering cutoff or neighbour radius is rejected       *)
(* before any neighbour query: Clusterizer::new fails for cutoff < 0 and   *)
(* candidate detection fails for a negative cutoff instead of returning a  *)
(* candidate list.                                                         *)
NegativeCutoffIsRejected ==
    ( /\ op.name \in {"Clusterizer::new", "get_crater_candidate_indecies"}
      /\ ~NonNegative(op.cutoff) ) =>
      (outcome = "Panic" /\ output = None)

----------------------------------------------------------------------------
(* carbon-structure-analysis: RingsFinder::new, bfs and find.  Atoms are   *)
(* named by their position in the list handed to RingsFinder::new.  The    *)
(* kd_tree crate is not part of the sources: whether its within_radius     *)
(* returns a point at exactly the radius is left open, and both boundaries *)
(* are modelled.  The inputs hold pairs of atoms at exactly 1.5 and 1.7.   *)

\* 1.5 and 1.7, the radii of the inner and the outer query.
RingInner == [neg |-> FALSE, mant |-> 15, exp |-> 1]

RingOuter == [neg |-> FALSE, mant |-> 17, exp |-> 1]

\* The boundaries within_radius of the kd_tree crate can have: a point at
\* exactly the radius is returned ("inclusive", the squared distance is
\* <= radius * radius) or is not ("strict", it is < radius * radius).
KdBoundaries == {"inclusive", "strict"}

\* The squared f32 distance of two rows' coordinates is below the square of
\* the f32 radius.
DistanceBelow(a, b, radius) ==
    \E x \in {XYZ_from(a)} : \E y \in {XYZ_from(b)} : \E cutoff \in {AsF32(radius)} :
       ~F32Leq(F32Mul(cutoff, cutoff), distance_squared(x, y))

\* tree.within_radius(&atom, radius): the atoms the query returns, on f32
\* coordinates with an f32 radius, for one boundary.
tree_within_radius(atoms, a, radius, boundary) ==
    {b \in 1..Len(atoms) :
       IF boundary = "inclusive" THEN DistanceWithin(atoms[b], atoms[a], radius)
       ELSE DistanceBelow(atoms[b], atoms[a], radius)}

\* The neighbours RingsFinder::new collects for every atom:
\* outer.iter().filter(|atom| !inner.contains(atom))
adjecency_list(atoms, boundary) ==
    [a \in 1..Len(atoms) |->
       {b \in tree_within_radius(atoms, a, RingOuter, boundary) :
          b \notin tree_within_radius(atoms, a, RingInner, boundary)}]

\* The neighbours of an atom in the order the Vec lists them: `order` is
\* the order the kd-tree returns the atoms in.
RECURSIVE NeighbourSeq(_, _)
NeighbourSeq(neighbours, order) ==
    IF order = <<>> THEN <<>>
    ELSE (IF Head(order) \in neighbours THEN <<Head(order)>> ELSE <<>>)
         \o NeighbourSeq(neighbours, Tail(order))

\* A bfs that also walks the bond itself.
WalksDirectBond(atom, atom_next, atom_begin, atom_end) == FALSE

\* if atom == atom_begin && atom_next == atom_end { continue; }
SkipsDirectBond(atom, atom_next, atom_begin, atom_end) ==
    atom = atom_begin /\ atom_next = atom_end

\* for &atom_next in self.adjecency_list[&atom].iter(): [found, ring, queue]
RECURSIVE BfsExpand(_, _, _, _, _, _, _)
BfsExpand(atom, ring, nbrs, k, queue, atom_begin, atom_end) ==
    IF k > Len(nbrs) THEN [found |-> FALSE, ring |-> {}, queue |-> queue]
    ELSE IF SkipsDirectBond(atom, nbrs[k], atom_begin, atom_end)
         THEN BfsExpand(atom, ring, nbrs, k + 1, queue, atom_begin, atom_end)
    ELSE IF nbrs[k] = atom_end
         THEN [found |-> TRUE, ring |-> ring \cup {nbrs[k]}, queue |-> queue]
    ELSE BfsExpand(atom, ring, nbrs, k + 1,
                   Append(queue, [atom |-> nbrs[k], ring |-> ring \cup {nbrs[k]}]),
                   atom_begin, atom_end)

\* while let Some((atom, ring)) = queue.pop_front() { ... }: None or Some(ring)
RECURSIVE BfsLoop(_, _, _, _, _, _)
BfsLoop(queue, visited, adj, order, atom_begin, atom_end) ==
    IF queue = <<>> THEN None
    ELSE IF Head(queue).atom \in visited
         THEN BfsLoop(Tail(queue), visited, adj, order, atom_begin, atom_end)
    ELSE LET r == BfsExpand(Head(queue).atom, Head(queue).ring,
                            NeighbourSeq(adj[Head(queue).atom], order), 1,
                            Tail(queue), atom_begin, atom_end)
         IN  IF r.found THEN Some(r.ring)
             ELSE BfsLoop(r.queue, visited \cup {Head(queue).atom}, adj, order,
                          atom_begin, atom_end)

bfs(adj, order, atom_begin, atom_end) ==
    BfsLoop(<<[atom |-> atom_begin, ring |-> {atom_begin}]>>, {}, adj, order,
            atom_begin, atom_end)

\* The rings find collects: one bfs per atom and neighbour, a ring kept
\* when rings does not contain it yet.
FoundRings(adj, order) ==
    {bfs(adj, order, bond[1], bond[2])[1] :
       bond \in {b \in (DOMAIN adj) \X (DOMAIN adj) :
                   b[2] \in adj[b[1]] /\ bfs(adj, order, b[1], b[2]) # None}}

\* find: rings_cnt, the number of collected rings of each ring.len()
find(adj, order) ==
    [len \in {Cardinality(ring) : ring \in FoundRings(adj, order)} |->
       Cardinality({ring \in FoundRings(adj, order) : Cardinality(ring) = len})]

\* The atom lists RingsFinder is built on.
Dec(neg, mant, exp) == [neg |-> neg, mant |-> mant, exp |-> exp]

\* The triangle, and a fourth atom below its first bond.
TwoTriangles ==
    Triangle \o <<Point(Dec(FALSE, 8, 1), Dec(TRUE, 13856, 4), Zero)>>

\* The triangle, and a fourth atom bonded to its second atom only.
TriangleWithTail == Triangle \o <<Point(Dec(FALSE, 32, 1), Zero, Zero)>>

Square ==
    <<Point(Zero, Zero, Zero), Point(Dec(FALSE, 16, 1), Zero, Zero),
      Point(Dec(FALSE, 16, 1), Dec(FALSE, 16, 1), Zero),
      Point(Zero, Dec(FALSE, 16, 1), Zero)>>

\* The square, and an apex over its third bond.
House == Square \o <<Point(Dec(FALSE, 8, 1), Dec(FALSE, 29856, 4), Zero)>>

Pentagon ==
    <<Point(Dec(FALSE, 13611, 4), Zero, Zero),
      Point(Dec(FALSE, 4206, 4), Dec(FALSE, 12945, 4), Zero),
      Point(Dec(TRUE, 11011, 4), Dec(FALSE, 8, 1), Zero),
      Point(Dec(TRUE, 11011, 4), Dec(TRUE, 8, 1), Zero),
      Point(Dec(FALSE, 4206, 4), Dec(TRUE, 12945, 4), Zero)>>

\* Two atoms at exactly 1.5 and two atoms at exactly 1.7 from each other.
PairAtInner == <<Point(Zero, Zero, Zero), Point(RingInner, Zero, Zero)>>

PairAtOuter == <<Point(Zero, Zero, Zero), Point(RingOuter, Zero, Zero)>>

\* (0,0,0), (1.7,0,0), (0.85,1.3555,0): a base of exactly 1.7 under two
\* sides of 1.6.
WideTriangle ==
    <<Point(Zero, Zero, Zero), Point(RingOuter, Zero, Zero),
      Point(Dec(FALSE, 85, 2), Dec(FALSE, 13555, 4), Zero)>>

RingGeometries ==
    {<<>>, SubSeq(Triangle, 1, 1), SubSeq(Triangle, 1, 2),
     <<Point(Zero, Zero, Zero), Point(Half, Zero, Zero)>>,
     PairAtInner, PairAtOuter, WideTriangle,
     Triangle, TwoTriangles, TriangleWithTail, Square, House, Pentagon}

\* The orders the kd-tree can return n atoms in.
RingOrders(n) ==
    {o \in [1..n -> 1..n] : \A i, j \in 1..n : o[i] = o[j] => i = j}

\* RingsFinder::new(atoms) with a kd-tree of one boundary; the atoms and
\* the boundary are kept for reference.
RingsFinder_new(atoms, boundary) ==
    [atoms |-> atoms, boundary |-> boundary,
     adjecency_list |-> adjecency_list(atoms, boundary)]

InitRings ==
    /\ input \in {Some(RingsFinder_new(atoms, boundary)) :
                     atoms \in RingGeometries, boundary \in KdBoundaries}
    /\ op = [name |-> "none"]
    /\ outcome = "None"
    /\ output = None
    /\ file = <<>>
    /\ timesteps = <<>>
    /\ pos = 0
    /\ pc = "done"
    /\ timestep = 0
    /\ number_of_atoms = 0
    /\ sym_box = None
    /\ snapshot = None
    /\ row = 0
    /\ dump = EmptyMap
    /\ result = "Running"

\* self.bfs(atom_begin, atom_end) on a bond of the list
Bfs ==
    /\ outcome = "None"
    /\ \E order \in RingOrders(Len(input[1].atoms)) :
       \E atom_begin \in 1..Len(input[1].atoms) :
       \E atom_end \in input[1].adjecency_list[atom_begin] :
         /\ op' = [name |-> "bfs", order |-> order,
                   atom_begin |-> atom_begin, atom_end |-> atom_end]
         /\ output' = bfs(input[1].adjecency_list, order, atom_begin, atom_end)
    /\ outcome' = "Ok"
    /\ UNCHANGED input
    /\ UNCHANGED readVars

\* self.find()
Find ==
    /\ outcome = "None"
    /\ \E order \in RingOrders(Len(input[1].atoms)) :
         /\ op' = [name |-> "find", order |-> order]
         /\ output' = Some(find(input[1].adjecency_list, order))
    /\ outcome' = "Ok"
    /\ UNCHANGED input
    /\ UNCHANGED readVars

NextRings == Bfs \/ Find

SpecRings == InitRings /\ [][NextRings]_vars

\* The squared distance of a and b and the squares of 1.5 and of 1.7, in
\* the same units: exact, on the decimal coordinates.
RingDistances(a, b) ==
    LET e == SetMax({a[k].exp : k \in 1..3} \cup {b[k].exp : k \in 1..3} \cup {1})
    IN  [squared |-> Dist2(a, b, e),
         inner   |-> 15 * Pow10(e - 1) * 15 * Pow10(e - 1),
         outer   |-> 17 * Pow10(e - 1) * 17 * Pow10(e - 1)]

\* b is at a distance d of a with 1.5 < d <= 1.7.
BondLength(a, b) ==
    /\ RingDistances(a, b).squared > RingDistances(a, b).inner
    /\ RingDistances(a, b).squared <= RingDistances(a, b).outer

\* b is at a distance d of a with 1.5 <= d < 1.7.
BondLengthStrict(a, b) ==
    /\ RingDistances(a, b).squared >= RingDistances(a, b).inner
    /\ RingDistances(a, b).squared < RingDistances(a, b).outer

\* The bonds of the claim: every atom with the other atoms at 1.5 < d <= 1.7.
BondsOf(atoms) ==
    [a \in 1..Len(atoms) |->
       {b \in 1..Len(atoms) : a # b /\ BondLength(atoms[a], atoms[b])}]

\* The atoms within `steps` bonds of atom_begin when the bond to atom_end is
\* not walked from atom_begin.
RECURSIVE AroundBond(_, _, _, _)
AroundBond(bonds, atom_begin, atom_end, steps) ==
    IF steps = 0 THEN {atom_begin}
    ELSE LET near == AroundBond(bonds, atom_begin, atom_end, steps - 1)
         IN  near \cup {b \in DOMAIN bonds :
                          \E a \in near : /\ b \in bonds[a]
                                          /\ ~(a = atom_begin /\ b = atom_end)}

\* The number of atoms of a shortest cycle through the bond, 0 without one.
ShortestCycle(bonds, atom_begin, atom_end) ==
    LET n == Cardinality(DOMAIN bonds)
    IN  IF atom_end \notin AroundBond(bonds, atom_begin, atom_end, n) THEN 0
        ELSE 1 + CHOOSE k \in 1..n :
                   /\ atom_end \in AroundBond(bonds, atom_begin, atom_end, k)
                   /\ atom_end \notin AroundBond(bonds, atom_begin, atom_end, k - 1)

\* The atoms of ring are a cycle through the bond from atom_begin to atom_end.
IsCycle(bonds, ring, atom_begin, atom_end) ==
    \E walk \in [1..Cardinality(ring) -> ring] :
      /\ \A i, j \in DOMAIN walk : walk[i] = walk[j] => i = j
      /\ walk[1] = atom_begin
      /\ walk[Cardinality(ring)] = atom_end
      /\ Cardinality(ring) >= 3
      /\ \A i \in 1..(Cardinality(ring) - 1) : walk[i + 1] \in bonds[walk[i]]

\* bfs has returned the atoms of a shortest cycle of `bonds` through the
\* bond it was called on, or None when the bond lies on no cycle.
BfsReturnsShortestCycle(bonds) ==
    op.name = "bfs" =>
      IF ShortestCycle(bonds, op.atom_begin, op.atom_end) = 0
      THEN output = None
      ELSE /\ output # None
           /\ Cardinality(output[1]) = ShortestCycle(bonds, op.atom_begin, op.atom_end)
           /\ IsCycle(bonds, output[1], op.atom_begin, op.atom_end)

\* find has counted every atom set that bfs returns for some bond once.
FindCountsEveryRingOnce ==
    op.name = "find" =>
      /\ (input[1].atoms = Triangle) => output[1] = (3 :> 1)
      /\ (input[1].atoms = TwoTriangles) => output[1] = (3 :> 2)
      /\ \A len \in DOMAIN output[1] :
           output[1][len] =
             Cardinality({ring \in SUBSET (1..Len(input[1].atoms)) :
                /\ Cardinality(ring) = len
                /\ \E a \in ring : \E b \in input[1].adjecency_list[a] :
                     bfs(input[1].adjecency_list, op.order, a, b) = Some(ring)})


----------------------------------------------------------------------------
(* math.rs: range::f32.  An f32 is the integer m and the exponent e of its  *)
(* value m * 2^e, m odd or the value 0; every operation rounds its exact    *)
(* result to 24 significant bits, ties to even.  The inputs stay far from   *)
(* the subnormal and the infinite values.                                   *)

MaxCount == 5

\* The integer nearest to n / d, the even one of two nearest ones.
RoundToNearestEven(n, d) ==
    IF 2 * (n % d) > d \/ (2 * (n % d) = d /\ (n \div d) % 2 = 1)
    THEN (n \div d) + 1
    ELSE n \div d

\* The f32 nearest to (n / d) * 2^e, for n >= 0 and d > 0.
RECURSIVE F32Round(_, _, _)
F32Round(n, d, e) ==
    IF n = 0 THEN Dyadic(0, 0)
    ELSE IF n \div d < Pow2(F32Bits - 1) THEN F32Round(2 * n, d, e - 1)
    ELSE IF n \div d >= Pow2(F32Bits) THEN F32Round(n, 2 * d, e + 1)
    ELSE Dyadic(RoundToNearestEven(n, d), e)

\* The f32 nearest to (n / d) * 2^e, for d > 0.
F32Signed(n, d, e) ==
    IF n < 0 THEN F32Neg(F32Round(-n, d, e)) ELSE F32Round(n, d, e)

\* The value of v in units of 2^e, for e <= v.e.
InUnits(v, e) == v.m * Pow2(v.e - e)

\* a / (n as f32)
F32Div(a, n) == F32Signed(a.m, n, a.e)

\* (i as f32).mul_add(a, b): i * a + b, rounded once
F32MulAdd(i, a, b) ==
    F32Signed(i * InUnits(a, Min(a.e, b.e)) + InUnits(b, Min(a.e, b.e)), 1, Min(a.e, b.e))

\* A divisor of count rather than of count - 1.
DivisorOfCount(count) == IF count > 1 THEN count ELSE 1

\* 1.max(1.max(count) - 1)
Divisor(count) == SetMax({1, SetMax({1, count}) - 1})

\* range::f32(begin, end, count), collected
range_f32(begin, end, count) ==
    LET step == F32Div(F32Sub(end, begin), Divisor(count))
    IN  [i \in 1..count |-> F32MulAdd(i - 1, step, begin)]

\* The ends range is called with.
RangeEnds == {Dyadic(v, 0) : v \in {-1, 0, 1, 3, 4, 5, 10}}

InitRange ==
    /\ input \in {Some([begin |-> b, end |-> e]) : b \in RangeEnds, e \in RangeEnds}
    /\ op = [name |-> "none"]
    /\ outcome = "None"
    /\ output = None
    /\ file = <<>>
    /\ timesteps = <<>>
    /\ pos = 0
    /\ pc = "done"
    /\ timestep = 0
    /\ number_of_atoms = 0
    /\ sym_box = None
    /\ snapshot = None
    /\ row = 0
    /\ dump = EmptyMap
    /\ result = "Running"

\* range::f32(begin, end, count).collect::<Vec<_>>()
Range ==
    /\ outcome = "None"
    /\ \E count \in 0..MaxCount :
         /\ op' = [name |-> "range", count |-> count]
         /\ output' = Some(range_f32(input[1].begin, input[1].end, count))
    /\ outcome' = "Ok"
    /\ UNCHANGED input
    /\ UNCHANGED readVars

NextRange == Range

SpecRange == InitRange /\ [][NextRange]_vars

\* The least exponent of the values of a list.
LeastExp(values) ==
    CHOOSE e \in {values[i].e : i \in DOMAIN values} :
      \A i \in DOMAIN values : e <= values[i].e

\* |d| * 2^e <= r * 2^-23, for integers d, e and r >= 0.
WithinRounding(d, e, r) ==
    IF e + F32Bits - 1 >= 0
    THEN Abs(d) <= r /\ Abs(d) * Pow2(e + F32Bits - 1) <= r
    ELSE Abs(d) <= r * Pow2(-(e + F32Bits - 1))

\* a and b differ by at most r * 2^-23.
Near(a, b, r) ==
    WithinRounding(InUnits(a, Min(a.e, b.e)) - InUnits(b, Min(a.e, b.e)),
                   Min(a.e, b.e), r)

\* The gaps between neighbouring values differ by at most r * 2^-23.
EvenlySpaced(values, r) ==
    LET e == LeastExp(values)
    IN  \A i, j \in 1..(Len(values) - 1) :
          WithinRounding((InUnits(values[i + 1], e) - InUnits(values[i], e))
                           - (InUnits(values[j + 1], e) - InUnits(values[j], e)),
                         e, r)

\* C24 as stated: range yields count values, none for count = 0, only begin
\* for count = 1, and for count >= 2 values whose first is begin and whose
\* last is end.
RangeEndsAtEnd ==
    op.name = "range" =>
      /\ Len(output[1]) = op.count
      /\ op.count = 1 => output[1] = <<input[1].begin>>
      /\ op.count >= 2 => /\ output[1][1] = input[1].begin
                          /\ output[1][op.count] = input[1].end

\* C24, amended: range yields count values, none for count = 0, only begin
\* for count = 1, and for count >= 2 values whose first is begin, whose last
\* is end up to the rounding of the step and of the sum (at most
\* (|end - begin| + |end|) * 2^-23 away), and whose gaps are equal up to
\* rounding (at most 2 * (|begin| + |end|) * 2^-23 apart).
RangeEndsNearEnd ==
    op.name = "range" =>
      /\ Len(output[1]) = op.count
      /\ op.count = 1 => output[1] = <<input[1].begin>>
      /\ op.count >= 2 =>
           /\ output[1][1] = input[1].begin
           /\ Near(output[1][op.count], input[1].end,
                   Abs(InUnits(input[1].end, 0) - InUnits(input[1].begin, 0))
                     + Abs(InUnits(input[1].end, 0)))
           /\ EvenlySpaced(output[1],
                           2 * (Abs(InUnits(input[1].begin, 0)) + Abs(InUnits(input[1].end, 0))))

\* range(-1, 0, 4) has ended at 2^-25 rather than at 0.
RangeWitness ==
    /\ op.name = "range"
    /\ op.count = 4
    /\ input[1] = [begin |-> Dyadic(-1, 0), end |-> Dyadic(0, 0)]
    /\ output[1][4] = [m |-> 1, e |-> -25]

----------------------------------------------------------------------------
(* Clusterizer::clusterize, one loop iteration at a time.  output holds the *)
(* locals of the call in progress: the row i of the outer loop, stack,      *)
(* atoms, the answers of the kd-tree (near), visited, current_cluster and   *)
(* clusters, the seeds taken so far and                                     *)
(* the number of times each row was marked visited and pushed.              *)

\* let atoms: Vec<XYZ> of the call in progress.
LoopAtoms == output[1].atoms

\* The closure without the test of visited.
VisitAlways(l, neigh_i) ==
    [l EXCEPT !.visited = @ \cup {neigh_i},
              !.stack   = Append(@, neigh_i),
              !.marked[neigh_i] = @ + 1,
              !.pushed[neigh_i] = @ + 1]

\* |xyz| { if !visited[neigh_i] { visited[neigh_i] = true;
\* stack.push((neigh_i, xyz)); } }
VisitNeighbour(l, neigh_i) ==
    IF neigh_i \in l.visited THEN l
    ELSE [l EXCEPT !.visited = @ \cup {neigh_i},
                   !.stack   = Append(@, neigh_i),
                   !.marked[neigh_i] = @ + 1,
                   !.pushed[neigh_i] = @ + 1]

\* .for_each over the rows neighbours[k..]: the locals after the last one
RECURSIVE VisitNeighbours(_, _, _)
VisitNeighbours(l, neighbours, k) ==
    IF k > Len(neighbours) THEN l
    ELSE CHOOSE last \in {VisitNeighbours(next, neighbours, k + 1) :
                             next \in {VisitNeighbour(l, neighbours[k])}} : TRUE

\* The rows atoms_map gives for the points kdtree.within_radius returns for
\* the atom of a row: atoms_map[xyz] for a point xyz of the tree within the
\* cutoff, -1 for a point that is not.
NeighbourRows(atoms, cutoff) ==
    [r \in 0..(Len(atoms) - 1) |->
       CHOOSE rows \in {[k \in 1..Len(atoms) |->
                           IF (k - 1) \in within THEN atoms_map(atoms, atoms[k])
                           ELSE -1] :
                          within \in {within_radius(atoms, atoms[r + 1], cutoff)}} : TRUE]

\* The rows of `near` that are rows, in the order `order` of the kd-tree.
InOrder(near, order) ==
    SelectSeq([k \in 1..Len(near) |-> near[order[k]]], LAMBDA r : r >= 0)

\* The geometries of rows at (0,0,0), (1,0,0) and (5,0,0).
LoopGeometries ==
    {points \in ClusterGeometries :
       \A k \in DOMAIN points :
         points[k] \in {Point(Zero, Zero, Zero), Point(Number(1), Zero, Zero),
                        Point(Number(5), Zero, Zero)}}

\* 0.5 and 1.5
LoopCutoffs == {Half, [neg |-> FALSE, mant |-> 15, exp |-> 1]}

\* clusterize(self) up to the outer loop: atoms, atoms_map and the kd-tree
\* (as the table `near`), clusters and visited; the loop is at row 0.
LoopEntry(c) ==
    CHOOSE entry \in
      {[atoms |-> atoms,
        near |-> NeighbourRows(atoms, c.cutoff),
        i |-> 0, in_cluster |-> FALSE, stack |-> <<>>,
        visited |-> {}, current_cluster |-> {},
        clusters |-> EmptyMap, seeds |-> <<>>,
        marked |-> [r \in 0..(c.snapshot.atoms_count - 1) |-> 0],
        pushed |-> [r \in 0..(c.snapshot.atoms_count - 1) |-> 0]] :
         atoms \in {ClusterAtoms(c)}} : TRUE

\* Clusterizer::new(&snapshot, cutoff).clusterize() has reached its outer
\* loop.
InitLoop ==
    /\ input \in {Some(Clusterizer_new(ClusterStore(<<KeyId, KeyX, KeyY, KeyZ>>, points),
                                        cutoff)) :
                    points \in LoopGeometries, cutoff \in LoopCutoffs}
    /\ ~AtCutoff(input[1].snapshot, input[1].cutoff)
    /\ op = [name |-> "clusterize", cutoff |-> input[1].cutoff]
    /\ outcome = "Loop"
    /\ output = Some(LoopEntry(input[1]))
    /\ file = <<>>
    /\ timesteps = <<>>
    /\ pos = 0
    /\ pc = "done"
    /\ timestep = 0
    /\ number_of_atoms = 0
    /\ sym_box = None
    /\ snapshot = None
    /\ row = 0
    /\ dump = EmptyMap
    /\ result = "Running"

\* if !visited[i] is false: the row is passed over
PassVisited ==
    /\ outcome = "Loop"
    /\ ~output[1].in_cluster
    /\ output[1].i < Len(LoopAtoms)
    /\ output[1].i \in output[1].visited
    /\ output' = Some([output[1] EXCEPT !.i = @ + 1])
    /\ UNCHANGED <<input, op, outcome>>
    /\ UNCHANGED readVars

\* if !visited[i]: current_cluster, stack = vec![(i, atom)], visited[i] = true
TakeSeed ==
    /\ outcome = "Loop"
    /\ ~output[1].in_cluster
    /\ output[1].i < Len(LoopAtoms)
    /\ output[1].i \notin output[1].visited
    /\ output' = Some([output[1] EXCEPT !.in_cluster = TRUE,
                                        !.current_cluster = {},
                                        !.stack = <<output[1].i>>,
                                        !.visited = @ \cup {output[1].i},
                                        !.seeds = Append(@, output[1].i),
                                        !.marked[output[1].i] = @ + 1,
                                        !.pushed[output[1].i] = @ + 1])
    /\ UNCHANGED <<input, op, outcome>>
    /\ UNCHANGED readVars

\* One turn of while let Some((current_i, atom)) = stack.pop()
PopAtom ==
    /\ outcome = "Loop"
    /\ output[1].in_cluster
    /\ output[1].stack # <<>>
    /\ \E order \in RingOrders(Len(LoopAtoms)) :
       \E popped \in {[output[1] EXCEPT
                         !.stack = SubSeq(@, 1, Len(@) - 1),
                         !.current_cluster = @ \cup {output[1].stack[Len(output[1].stack)]}]} :
       \E neighbours \in {InOrder(output[1].near[output[1].stack[Len(output[1].stack)]],
                                   order)} :
         output' = Some(VisitNeighbours(popped, neighbours, 1))
    /\ UNCHANGED <<input, op, outcome>>
    /\ UNCHANGED readVars

\* The stack is empty: clusters.entry(first of current_cluster).insert_entry
CloseCluster ==
    /\ outcome = "Loop"
    /\ output[1].in_cluster
    /\ output[1].stack = <<>>
    /\ \E first \in output[1].current_cluster :
         output' = Some([output[1] EXCEPT
                           !.clusters = MapInsert(@, first, output[1].current_cluster),
                           !.in_cluster = FALSE,
                           !.i = @ + 1])
    /\ UNCHANGED <<input, op, outcome>>
    /\ UNCHANGED readVars

\* The outer for_each has passed the last row.
LeaveLoop ==
    /\ outcome = "Loop"
    /\ ~output[1].in_cluster
    /\ output[1].i >= Len(LoopAtoms)
    /\ outcome' = "Clustered"
    /\ UNCHANGED <<input, op, output>>
    /\ UNCHANGED readVars

NextLoop ==
    PassVisited \/ TakeSeed \/ PopAtom \/ CloseCluster \/ LeaveLoop

\* The loop runs on: no step of clusterize waits for anything.
SpecLoop == InitLoop /\ [][NextLoop]_vars /\ WF_vars(NextLoop)

\* The rows of the store.
LoopRows == 0..(input[1].snapshot.atoms_count - 1)

\* C25: clusterize terminates; seeds are taken in increasing row order; a
\* seed is taken only when the stack of the seed before it is drained; no
\* row is marked visited or pushed twice; and when the outer loop ends
\* every row was marked and pushed once, is visited and is in exactly one
\* cluster.
LoopVisitsEachRowOnce ==
    /\ [](outcome \in {"Loop", "Clustered"} =>
            /\ \A a, b \in 1..Len(output[1].seeds) :
                  a < b => output[1].seeds[a] < output[1].seeds[b]
            /\ \A r \in LoopRows :
                  output[1].marked[r] <= 1 /\ output[1].pushed[r] <= 1
            /\ outcome = "Clustered" =>
                  \A r \in LoopRows :
                    /\ output[1].marked[r] = 1
                    /\ output[1].pushed[r] = 1
                    /\ r \in output[1].visited
                    /\ Cardinality({k \in DOMAIN output[1].clusters :
                                      r \in output[1].clusters[k]}) = 1)
    /\ [][(outcome = "Loop" /\ output'[1].seeds # output[1].seeds)
            => output[1].stack = <<>> /\ ~output[1].in_cluster]_vars
    /\ <>(outcome = "Clustered")

\* The loop has ended on three rows of which the last two share a point:
\* two seeds were taken and two clusters were found.
LoopWitness ==
    /\ outcome = "Clustered"
    /\ Len(LoopAtoms) = 3
    /\ LoopAtoms[2] = LoopAtoms[3]
    /\ LoopAtoms[1] # LoopAtoms[2]
    /\ Len(output[1].seeds) = 2
    /\ MapLen(output[1].clusters) = 2
    /\ \E k \in DOMAIN output[1].clusters : Cardinality(output[1].clusters[k]) = 2

----------------------------------------------------------------------------
(* Clusterizer::new(S, c).clusterize() on stores with and without a         *)
(* 'cluster' column.                                                        *)

FrameSchemas == {<<KeyId, KeyX, KeyY, KeyZ>>, <<KeyX, KeyY, KeyZ, KeyId, KeyCluster>>}

InitFrame ==
    /\ input \in {Some(ClusterStore(schema, points)) :
                    schema \in FrameSchemas, points \in LoopGeometries}
    /\ op = [name |-> "none"]
    /\ outcome = "None"
    /\ output = None
    /\ file = <<>>
    /\ timesteps = <<>>
    /\ pos = 0
    /\ pc = "done"
    /\ timestep = 0
    /\ number_of_atoms = 0
    /\ sym_box = None
    /\ snapshot = None
    /\ row = 0
    /\ dump = EmptyMap
    /\ result = "Running"

\* Clusterizer::new(&snapshot, cutoff).clusterize(), panics included
ClusterizeFrame ==
    /\ outcome = "None"
    /\ \E cutoff \in LoopCutoffs :
       \E c \in {Clusterizer_new(input[1], cutoff)} :
         /\ ~AtCutoff(input[1], cutoff)
         /\ op' = [name |-> "clusterize", cutoff |-> cutoff]
         /\ IF c.panic
            THEN outcome' = "Panic" /\ output' = None
            ELSE \E key \in ClusterKeys(ClustersOf(c)) :
                   IF clusterize(c, key).panic
                   THEN outcome' = "Panic" /\ output' = None
                   ELSE outcome' = "Ok" /\ output' = Some(clusterize(c, key).dump)
    /\ UNCHANGED input
    /\ UNCHANGED readVars

NextFrame == ClusterizeFrame

SpecFrame == InitFrame /\ [][NextFrame]_vars

\* C26: clusterize returns one store with the step, box and atoms_count of
\* the input and every input property other than 'cluster' at its column
\* with its values, whether or not the input has a 'cluster' column.
ClusterizeKeepsTheFrame ==
    op.name = "clusterize" =>
      /\ outcome = "Ok"
      /\ Len(get_snapshots(output[1])) = 1
      /\ LET s == get_snapshots(output[1])[1]
         IN  /\ s.step = input[1].step
             /\ s.sym_box = input[1].sym_box
             /\ s.atoms_count = input[1].atoms_count
             /\ \A key \in DOMAIN input[1].keys \ {KeyCluster} :
                   /\ key \in DOMAIN s.keys
                   /\ s.keys[key] = input[1].keys[key]
                   /\ get_property(s, key) = get_property(input[1], key)
             /\ KeyCluster \in DOMAIN s.keys
             /\ s.keys[KeyCluster] * s.atoms_count + s.atoms_count <= Len(s.atoms)

----------------------------------------------------------------------------
\* C27: get_atom_value, set_atom_value and copy_snapshot_with_indices fail
\* when they are given a row index >= atoms_count.
RowPastTheEndFails ==
    /\ (/\ op.name \in {"get_atom_value", "set_atom_value"}
        /\ op.atom_index >= input[1].atoms_count) => outcome = "Panic"
    /\ (/\ op.name = "copy_snapshot_with_indices"
        /\ \E k \in DOMAIN op.indices : op.indices[k] >= input[1].atoms_count)
         => outcome = "Panic"

----------------------------------------------------------------------------
(* DumpFile::read of a file one line of which cannot be read.               *)

\* The well-formed files with one line replaced by a failure to read it.
FailureFiles ==
    UNION {{ReplaceLine(Flatten(Blocks(steps, n0)), j, ReadFailure) :
              j \in 1..Len(Flatten(Blocks(steps, n0)))} :
           steps \in StepSeqs, n0 \in 0..MaxAtoms}

InitFailure ==
    /\ file \in FailureFiles
    /\ timesteps \in Requests
    /\ pos = 0
    /\ pc = "timestep"
    /\ timestep = 0
    /\ number_of_atoms = 0
    /\ sym_box = None
    /\ snapshot = None
    /\ row = 0
    /\ dump = EmptyMap
    /\ result = "Running"
    /\ input = None
    /\ op = [name |-> "none"]
    /\ outcome = "None"
    /\ output = None

SpecFailure == InitFailure /\ [][Next]_vars

\* C28: when a line that the reader asked for could not be read,
\* DumpFile::read does not return Ok.
ReadFailureIsReturned ==
    (/\ pc = "done"
     /\ \E j \in 1..pos : file[j] = ReadFailure) => result # "Ok"

----------------------------------------------------------------------------
(* sputtered-analysis: get_clusters and Cluster::new.  An Atom holds the    *)
(* f64 values of its row; mass, momentum and ek of a Cluster are computed   *)
(* in f64.  sqrt and atan are not emulated: the inputs keep every velocity  *)
(* along z, where the angle is atan of +inf, of -inf or of NaN.             *)

MaxSputterRows == 3

KeyType == <<"t","y","p","e">>

KeyVx == <<"v","x">>

KeyVy == <<"v","y">>

KeyVz == <<"v","z">>

\* The ten properties get_clusters reads, in the order it reads them.
SputterProperties ==
    <<KeyId, KeyType, KeyX, KeyY, KeyZ, KeyVx, KeyVy, KeyVz, KeyMass, KeyCluster>>

\* Atom::new(id, atype, coords, velocity, mass)
Atom_new(id, atype, coords, velocity, mass) ==
    [_id |-> id, atype |-> atype, _coords |-> coords, velocity |-> velocity,
     mass |-> mass]

\* Atom::new(id[i] as usize, atype[i] as usize, [x[i], y[i], z[i]],
\*           [vx[i], vy[i], vz[i]], mass[i]) for row i
SputterAtom(s, i) ==
    Atom_new(AsU64(get_property(s, KeyId)[i + 1]),
             AsU64(get_property(s, KeyType)[i + 1]),
             [k \in 1..3 |-> AsF64(get_property(s, <<KeyX, KeyY, KeyZ>>[k])[i + 1])],
             [k \in 1..3 |-> AsF64(get_property(s, <<KeyVx, KeyVy, KeyVz>>[k])[i + 1])],
             AsF64(get_property(s, KeyMass)[i + 1]))

\* clusters.entry(cluster[i] as usize).and_modify(|v| v.push(Atom::new(..)))
\* .or_insert(Vec::new()) for the rows i.. : label -> its atoms
RECURSIVE SputterAtoms(_, _, _)
SputterAtoms(s, i, clusters) ==
    IF i >= s.atoms_count THEN clusters
    ELSE LET label == AsU64(get_property(s, KeyCluster)[i + 1])
         IN  SputterAtoms(s, i + 1,
                          IF label \in DOMAIN clusters
                          THEN MapInsert(clusters, label,
                                         Append(clusters[label], SputterAtom(s, i)))
                          ELSE MapInsert(clusters, label, <<>>))

\* cluster.counts.entry(atom.atype).and_modify(|n| *n += 1).or_default() for
\* the atoms k..
RECURSIVE SputterCounts(_, _, _)
SputterCounts(atoms, k, counts) ==
    IF k > Len(atoms) THEN counts
    ELSE SputterCounts(atoms, k + 1,
                       IF atoms[k].atype \in DOMAIN counts
                       THEN MapInsert(counts, atoms[k].atype, counts[atoms[k].atype] + 1)
                       ELSE MapInsert(counts, atoms[k].atype, 0))

\* cluster.mass += atom.mass for the atoms k..
RECURSIVE SputterMass(_, _, _)
SputterMass(atoms, k, mass) ==
    IF k > Len(atoms) THEN mass
    ELSE SputterMass(atoms, k + 1, F64Add(mass, atoms[k].mass))

\* cluster.momentum[i] += vel * atom.mass for the atoms k..
RECURSIVE SputterMomentum(_, _, _)
SputterMomentum(atoms, k, momentum) ==
    IF k > Len(atoms) THEN momentum
    ELSE SputterMomentum(atoms, k + 1,
           [i \in 1..3 |-> F64Add(momentum[i],
                                  F64Mul(atoms[k].velocity[i], atoms[k].mass))])

\* 2.0 * 5.1875 * 1e-5 * (px.powi(2) + py.powi(2) + pz.powi(2)) / (2.0 * mass);
\* None is NaN, 0.0 / 0.0 for a Cluster of no atoms.  The mass of a Cluster
\* with atoms is not 0 here.
Cluster_ek(momentum, mass) ==
    IF mass.m = <<>> THEN None
    ELSE Some(F64Div(
           F64Mul(F64Mul(F64Mul(AsF64(Number(2)),
                                AsF64([neg |-> FALSE, mant |-> 51875, exp |-> 4])),
                         AsF64([neg |-> FALSE, mant |-> 1, exp |-> 5])),
                  F64Add(F64Add(F64Mul(momentum[1], momentum[1]),
                                F64Mul(momentum[2], momentum[2])),
                         F64Mul(momentum[3], momentum[3]))),
           F64Mul(AsF64(Number(2)), mass)))

\* (pz / (px.powi(2) + py.powi(2)).sqrt()).atan() for px = py = 0: the
\* quotient is pz / 0.0, which is NaN, +inf or -inf.
Cluster_angle(momentum) ==
    IF momentum[3].m = <<>> THEN "NaN"
    ELSE IF momentum[3].neg THEN "-FRAC_PI_2"
    ELSE "FRAC_PI_2"

\* Cluster::new(atoms)
Cluster_new(atoms) ==
    CHOOSE cluster \in
      {[mass     |-> mass,
        counts   |-> SputterCounts(atoms, 1, EmptyMap),
        momentum |-> momentum,
        ek       |-> Cluster_ek(momentum, mass),
        angle    |-> Cluster_angle(momentum)] :
         mass \in {SputterMass(atoms, 1, F64Zero)},
         momentum \in {SputterMomentum(atoms, 1, [i \in 1..3 |-> F64Zero])}} : TRUE

\* The ten get_property calls of get_clusters: one panics on a snapshot
\* without the column.
get_clustersPanics(s) ==
    \E k \in 1..Len(SputterProperties) : get_propertyPanics(s, SputterProperties[k])

\* get_clusters: [panic, clusters], clusters.values().map(Cluster::new)
\* .collect() with the labels taken in the order `order` of the HashMap
get_clusters(s, order) ==
    IF get_clustersPanics(s) THEN [panic |-> TRUE, clusters |-> <<>>]
    ELSE CHOOSE r \in
      {[panic    |-> FALSE,
        clusters |-> [k \in 1..Len(order) |-> Cluster_new(atoms[order[k]])]] :
         atoms \in {SputterAtoms(s, 0, EmptyMap)}} : TRUE

\* The mass of an atom of the type: 28.0855 and 12.011.
SputterMassOf(atype) ==
    IF atype = 1 THEN [neg |-> FALSE, mant |-> 280855, exp |-> 4]
    ELSE [neg |-> FALSE, mant |-> 12011, exp |-> 3]

\* The velocity along z of an atom of the type: 1.5 and -0.5.
SputterVzOf(atype) ==
    IF atype = 1 THEN [neg |-> FALSE, mant |-> 15, exp |-> 1]
    ELSE [neg |-> TRUE, mant |-> 5, exp |-> 1]

\* s with `value` in the column `key` of row i, when s has the column.
SetIfPresent(s, key, i, value) ==
    IF key \in DOMAIN s.keys THEN set_atom_value(s, s.keys[key], i, value) ELSE s

\* The store with the given type and cluster label in every row, the id
\* i + 1, and the mass and the velocity of the type.
RECURSIVE SputterRows(_, _, _)
SputterRows(s, rows, i) ==
    IF i >= s.atoms_count THEN s
    ELSE SputterRows(
           SetIfPresent(
             SetIfPresent(
               SetIfPresent(
                 SetIfPresent(
                   SetIfPresent(s, KeyId, i, Number(i + 1)),
                   KeyType, i, Number(rows[i + 1][1])),
                 KeyCluster, i, Number(rows[i + 1][2])),
               KeyMass, i, SputterMassOf(rows[i + 1][1])),
             KeyVz, i, SputterVzOf(rows[i + 1][1])),
           rows, i + 1)

\* The columns of get_clusters, and the same without the mass and without
\* the cluster column.
SputterSchemas ==
    {SputterProperties,
     SelectSeq(SputterProperties, LAMBDA key : key # KeyMass),
     SelectSeq(SputterProperties, LAMBDA key : key # KeyCluster)}

SputterStores ==
    {SputterRows(DumpSnapshot_new(ReadKeys(schema, EmptyMap)[1], 100,
                                  Len(rows), InputBox), rows, 0) :
       schema \in SputterSchemas,
       rows \in UNION {[1..m -> {1, 2} \X {10, 20}] : m \in 0..MaxSputterRows}}

InitSputter ==
    /\ input \in {Some(s) : s \in SputterStores}
    /\ op = [name |-> "none"]
    /\ outcome = "None"
    /\ output = None
    /\ file = <<>>
    /\ timesteps = <<>>
    /\ pos = 0
    /\ pc = "done"
    /\ timestep = 0
    /\ number_of_atoms = 0
    /\ sym_box = None
    /\ snapshot = None
    /\ row = 0
    /\ dump = EmptyMap
    /\ result = "Running"

\* get_clusters(dump.get_snapshots()[0])
GetClusters ==
    /\ outcome = "None"
    /\ IF get_clustersPanics(input[1])
       THEN /\ op' = [name |-> "get_clusters", order |-> <<>>]
            /\ outcome' = "Panic"
            /\ output' = None
       ELSE \E order \in Orders(DOMAIN SputterAtoms(input[1], 0, EmptyMap)) :
            \E r \in {get_clusters(input[1], order)} :
              /\ op' = [name |-> "get_clusters", order |-> order]
              /\ outcome' = "Ok"
              /\ output' = Some(r.clusters)
    /\ UNCHANGED input
    /\ UNCHANGED readVars

NextSputter == GetClusters

SpecSputter == InitSputter /\ [][NextSputter]_vars

\* let sum = cluster.counts.values().copied().sum::<usize>()
RECURSIVE CountsSum(_)
CountsSum(counts) ==
    IF DOMAIN counts = {} THEN 0
    ELSE LET t == CHOOSE t \in DOMAIN counts : TRUE
         IN  counts[t] + CountsSum([o \in DOMAIN counts \ {t} |-> counts[o]])

\* C29: get_clusters returns one Cluster per distinct 'cluster' label, and
\* the counts of the Cluster of a label sum to the number of rows with that
\* label.
ClusterCountsSumToRows ==
    (op.name = "get_clusters" /\ outcome = "Ok") =>
      /\ Len(output[1]) = MapLen(cluster_cnt(get_property(input[1], KeyCluster)))
      /\ \A k \in 1..Len(output[1]) :
            CountsSum(output[1][k].counts)
              = cluster_cnt(get_property(input[1], KeyCluster))[op.order[k]]

\* ---------------------------------------------------------------------
\* rim-analysis: RimValues::get_sectors
\* ---------------------------------------------------------------------

\* const ANGLE_ROTATION: usize = 10
ANGLE_ROTATION == 10

\* const SECTORS_LEN: usize = 360 / ANGLE_ROTATION
SECTORS_LEN == 360 \div ANGLE_ROTATION

\* const MASS: [f32; 3] = [0.0, 28.08553, 12.011]
MASS ==
    <<Zero, [neg |-> FALSE, mant |-> 2808553, exp |-> 5],
      [neg |-> FALSE, mant |-> 12011, exp |-> 3]>>

MaxRimAtoms == 2

\* The directions of a rim atom as seen from the centre: the eight points of
\* rim_atom_rotation_test and the centre itself.
RimDirections == {<<x, y>> : x \in {-1, 0, 1}, y \in {-1, 0, 1}}

RimCenters == {<<0, 0>>, <<1, 1>>}

\* The types of the rim atoms: two that MASS holds and one past its end.
RimTypes == {1, 2, Len(MASS)}

\* Atom::new(coords, atype) of rim-analysis
RimAtom_new(coords, atype) == [coords |-> coords, atype |-> atype]

\* RimValues::new: atoms.iter_mut().for_each(|a| a.coords -= center)
RimValues_new(atoms, center) ==
    [atoms  |-> [k \in DOMAIN atoms |->
                    RimAtom_new(<<atoms[k].coords[1] - center[1],
                                  atoms[k].coords[2] - center[2]>>,
                                atoms[k].atype)],
     center |-> center]

\* Point2::length in f32, on the directions of RimDirections: 0.0, 1.0 and
\* the f32 nearest to the square root of 2, 11863283 * 2^-23.
Point2_length(v) ==
    CASE v[1] * v[1] + v[2] * v[2] = 0 -> Dyadic(0, 0)
      [] v[1] * v[1] + v[2] * v[2] = 1 -> Dyadic(1, 0)
      [] v[1] * v[1] + v[2] * v[2] = 2 -> Dyadic(11863283, -23)

\* rim_atom_rotation followed by to_degrees, on the directions of
\* RimDirections: acos(-v.y / v.length()) when v.x > 0.0, and
\* 2 PI - acos(-v.y / v.length()) otherwise; the quotient is NaN at the
\* centre, written None.  In f32 the axis directions give 90.0, 180.0,
\* 270.0 and 360.0 exactly and the diagonals a value within 1e-4 of the
\* one here.
point_rotation(v) ==
    CASE v[1] = 0 /\ v[2] = 0 -> None
      [] v[1] > 0 /\ v[2] < 0 -> Some(45)
      [] v[1] > 0 /\ v[2] = 0 -> Some(90)
      [] v[1] > 0 /\ v[2] > 0 -> Some(135)
      [] v[1] = 0 /\ v[2] > 0 -> Some(360 - 180)
      [] v[1] < 0 /\ v[2] > 0 -> Some(360 - 135)
      [] v[1] < 0 /\ v[2] = 0 -> Some(360 - 90)
      [] v[1] < 0 /\ v[2] < 0 -> Some(360 - 45)
      [] v[1] = 0 /\ v[2] < 0 -> Some(360 - 0)

\* usize::clamp(min, max)
Clamp(v, min, max) == IF v < min THEN min ELSE IF v > max THEN max ELSE v

\* ((point_rotation(a.coords) / ANGLE_ROTATION as f32).floor() as usize)
\*     .clamp(0, SECTORS_LEN); NaN as usize is 0
SectorOf(v) ==
    IF point_rotation(v) = None THEN 0
    ELSE Clamp(point_rotation(v)[1] \div ANGLE_ROTATION, 0, SECTORS_LEN)

\* Sector::new(atoms): [panic, radius, mass, count].  MASS[a.atype] panics
\* for an atype that is not below the length of MASS.
Sector_new(atoms) ==
    IF \E k \in 1..Len(atoms) : atoms[k].atype >= Len(MASS)
    THEN [panic |-> TRUE, radius |-> <<>>, mass |-> <<>>, count |-> <<>>]
    ELSE [panic  |-> FALSE,
          radius |-> [k \in 1..Len(atoms) |-> Point2_length(atoms[k].coords)],
          mass   |-> [k \in 1..Len(atoms) |-> AsF32(MASS[atoms[k].atype + 1])],
          count  |-> <<Len(atoms)>>]

\* self.atoms.iter().filter(|a| ... == i).copied().collect()
SectorAtoms(rim, i) ==
    SelectSeq(rim.atoms, LAMBDA a : SectorOf(a.coords) = i)

\* RimValues::get_sectors: [panic, sectors], std::array::from_fn over i in
\* 0..SECTORS_LEN; it panics when a Sector::new does.
get_sectors(rim) ==
    CHOOSE r \in
      {[panic   |-> \E i \in DOMAIN sectors : sectors[i].panic,
        sectors |-> [i \in DOMAIN sectors |->
                       [radius |-> sectors[i].radius, mass |-> sectors[i].mass,
                        count |-> sectors[i].count]]] :
         sectors \in {[i \in 0..(SECTORS_LEN - 1) |->
                         Sector_new(SectorAtoms(rim, i))]}} : TRUE

RimAtomLists ==
    UNION {[1..n -> RimDirections \X RimTypes] : n \in 0..MaxRimAtoms}

InitRim ==
    /\ \E center \in RimCenters : \E atoms \in RimAtomLists :
         input = Some(RimValues_new(
                    [k \in DOMAIN atoms |->
                        RimAtom_new(<<atoms[k][1][1] + center[1],
                                      atoms[k][1][2] + center[2]>>,
                                    atoms[k][2])],
                    center))
    /\ op = [name |-> "none"]
    /\ outcome = "None"
    /\ output = None
    /\ file = <<>>
    /\ timesteps = <<>>
    /\ pos = 0
    /\ pc = "done"
    /\ timestep = 0
    /\ number_of_atoms = 0
    /\ sym_box = None
    /\ snapshot = None
    /\ row = 0
    /\ dump = EmptyMap
    /\ result = "Running"

\* rim_values.get_sectors()
GetSectors ==
    /\ outcome = "None"
    /\ op' = [name |-> "get_sectors"]
    /\ \E r \in {get_sectors(input[1])} :
         IF r.panic THEN outcome' = "Panic" /\ output' = None
         ELSE outcome' = "Ok" /\ output' = Some(r.sectors)
    /\ UNCHANGED input
    /\ UNCHANGED readVars

NextRim == GetSectors

SpecRim == InitRim /\ [][NextRim]_vars

\* The sum of the sizes the sectors report in count.
RECURSIVE SectorSizes(_, _)
SectorSizes(sectors, i) ==
    IF i >= SECTORS_LEN THEN 0
    ELSE sectors[i].count[1] + SectorSizes(sectors, i + 1)

\* The sectors of the output that hold rim atom k: those of its sector
\* index, whose radius, mass and count have an entry for each atom of that
\* index.
SectorsHolding(k) ==
    {i \in DOMAIN output[1] :
       /\ SectorOf(input[1].atoms[k].coords) = i
       /\ output[1][i].count = <<Len(SectorAtoms(input[1], i))>>
       /\ Len(output[1][i].radius) = Len(SectorAtoms(input[1], i))
       /\ Len(output[1][i].mass) = Len(SectorAtoms(input[1], i))}

\* C30: get_sectors puts every rim atom into exactly one of the 36
\* ten-degree sectors, for every angle in [0, 360] that point_rotation
\* returns, so the sector sizes sum to the number of rim atoms.
EveryRimAtomInOneSector ==
    (op.name = "get_sectors" /\ outcome = "Ok") =>
      /\ DOMAIN output[1] = 0..(SECTORS_LEN - 1)
      /\ \A k \in DOMAIN input[1].atoms : Cardinality(SectorsHolding(k)) = 1
      /\ SectorSizes(output[1], 0) = Len(input[1].atoms)

\* Away from the direction straight down (angle 360) every rim atom is in
\* exactly one sector.
RimAtomsBelow360InOneSector ==
    (op.name = "get_sectors" /\ outcome = "Ok") =>
      \A k \in DOMAIN input[1].atoms :
         point_rotation(input[1].atoms[k].coords) # Some(360) =>
            Cardinality(SectorsHolding(k)) = 1

====
